---- MODULE Spec2Model ----
(***************************************************************************)
(* A model of gmx::SelectionCollection (selectioncollection.cpp): the      *)
(* facade that parses selections, binds external index groups, compiles    *)
(* and evaluates them.  The lexer, the grammar, the compiler and the       *)
(* evaluator live in other files of the repository; where an operation of  *)
(* the facade calls into them, the callee is modelled from its described   *)
(* behaviour and is marked as such where it is defined.                    *)
(***************************************************************************)
EXTENDS Integers, Sequences, FiniteSets, TLC

(***************************************************************************)
(* Bounds of the model.                                                    *)
(***************************************************************************)
\* Largest number of selections the collection holds.
MaxSel == 2
\* Largest number of tokens of one input text (string, file or stdin line).
MaxTokens == 3
\* Largest number of lines of one stdin session.
MaxLines == 2
\* Largest number of frames evaluated.
MaxFrames == 2
\* Largest number of characters of a file read line by line.
MaxChars == 5
\* Largest number of atoms of a structure file or of an index group.
MaxAtoms == 3

(***************************************************************************)
(* Values.                                                                 *)
(***************************************************************************)
\* Status of the push parser that asks for the next token; 0 is success and
\* every other value a failure.
YYPUSH_MORE == 4

\* Tokens: the end of the lexer's input (token 0), the command separator,
\* a token no rule accepts, and one token per top-level expression.
YYEOF == "0"
CMD_SEP == "CMD_SEP"
INVALID == "INVALID"
E_GROUP_A == "group A"
E_BOGUS_OR_5 == "group bogus or group 5"
E_GROUP_1_AND_ALL == "group 1 and all"
E_RESNAME == "resname RA"

ExprTokens == {E_GROUP_A, E_BOGUS_OR_5, E_GROUP_1_AND_ALL, E_RESNAME}

\* gmx_ana_indexgrps_t: an ordered sequence of named index groups, or NULL.
NullGrps == [isNull |-> TRUE, g |-> <<>>]

GroupsAB ==
    [isNull |-> FALSE,
     g |-> << [name |-> "A", index |-> <<2, 7, 9>>],
              [name |-> "B", index |-> <<1>>] >>]

GroupSets == {NullGrps, GroupsAB}

\* t_topology: NULL, or a topology with atoms.nr atoms.
NullTop == [isNull |-> TRUE, nr |-> 0]
Top3 == [isNull |-> FALSE, nr |-> 3]

UnknownGroupMsg == "Unknown group referenced in a selection"
TooFewMsg == "Too few selections provided"
SyntaxErrorMsg == "syntax error"

(***************************************************************************)
(* Selection trees.  A node has a type, the union u (a group reference     *)
(* {name, id} or a constant group {name, index}), a name, and its          *)
(* children in order (child, child->next, ...).                            *)
(***************************************************************************)
GrefByName(n) == [kind |-> "gref", byName |-> TRUE, name |-> n, id |-> 0]
GrefById(i) == [kind |-> "gref", byName |-> FALSE, name |-> "", id |-> i]
CGrp(n, ix) == [kind |-> "cgrp", name |-> n, index |-> ix]
NoU == [kind |-> "none"]

Node(t, uval, nm, rt, ch) ==
    [type |-> t, u |-> uval, name |-> nm, reqTop |-> rt, child |-> ch]

Leaf(t, uval, rt) == Node(t, uval, "", rt, <<>>)

\* The tree the parser builds for a top-level expression.
TreeOf(tok) ==
    CASE tok = E_GROUP_A ->
           Node("SEL_ROOT", NoU, tok, FALSE,
                << Leaf("SEL_GROUPREF", GrefByName("A"), FALSE) >>)
      [] tok = E_BOGUS_OR_5 ->
           Node("SEL_ROOT", NoU, tok, FALSE,
                << Node("SEL_BOOLEAN", NoU, "or", FALSE,
                        << Leaf("SEL_GROUPREF", GrefByName("bogus"), FALSE),
                           Leaf("SEL_GROUPREF", GrefById(5), FALSE) >>) >>)
      [] tok = E_GROUP_1_AND_ALL ->
           Node("SEL_ROOT", NoU, tok, FALSE,
                << Node("SEL_BOOLEAN", NoU, "and", FALSE,
                        << Leaf("SEL_GROUPREF", GrefById(1), FALSE),
                           Leaf("SEL_CONST", CGrp("all", <<0, 1, 2>>), FALSE) >>) >>)
      [] OTHER ->
           Node("SEL_ROOT", NoU, tok, FALSE,
                << Leaf("SEL_EXPRESSION", NoU, TRUE) >>)

(***************************************************************************)
(* Index group look-ups and position types (declared outside the files     *)
(* modelled here).                                                         *)
(***************************************************************************)
NoGroup == [name |-> "", index |-> <<>>]

\* gmx_ana_indexgrps_extract(dest, src, n): the n-th group, counted from 0.
IndexGrpsExtract(src, n) ==
    IF n >= 0 /\ n < Len(src.g)
    THEN [found |-> TRUE, grp |-> src.g[n + 1]]
    ELSE [found |-> FALSE, grp |-> NoGroup]

\* gmx_ana_indexgrps_find(dest, src, name): the first group of that name.
IndexGrpsFind(src, name) ==
    LET hits == {i \in 1..Len(src.g) : src.g[i].name = name}
    IN  IF hits = {}
        THEN [found |-> FALSE, grp |-> NoGroup]
        ELSE IndexGrpsExtract(src, (CHOOSE i \in hits : \A j \in hits : i <= j) - 1)

\* PositionCalculationCollection::typeEnumValues and typeFromEnum: the
\* position type a name stands for; an unknown name throws.
PosTypeNames == {"atom", "res_com", "mol_com"}

TypeFromEnum(name) ==
    CASE name = "atom" -> "POS_ATOM"
      [] name = "res_com" -> "POS_RES"
      [] name = "mol_com" -> "POS_MOL"
      [] OTHER -> "throws"

\* _gmx_selelem_requires_top: some node of the tree needs the topology.
RECURSIVE RequiresTop(_)
RequiresTop(node) ==
    node.reqTop \/ \E i \in 1..Len(node.child) : RequiresTop(node.child[i])

\* Some node of the tree has the given type.
RECURSIVE HasType(_, _)
HasType(node, t) ==
    node.type = t \/ \E i \in 1..Len(node.child) : HasType(node.child[i], t)

(***************************************************************************)
(* SelectionCollection::Impl::resolveExternalGroups                        *)
(***************************************************************************)
\* A resolution that converts the node whether or not the group was found.
ResolveGroupRefUnchecked(root, grps) ==
    IF root.type # "SEL_GROUPREF"
    THEN [node |-> root, errors |-> <<>>]
    ELSE LET look == IF grps.isNull
                     THEN [found |-> FALSE, grp |-> NoGroup]
                     ELSE IF root.u.byName
                          THEN IndexGrpsFind(grps, root.u.name)
                          ELSE IndexGrpsExtract(grps, root.u.id)
         IN  [node |-> [root EXCEPT !.type = "SEL_CONST",
                                     !.u = CGrp(look.grp.name, look.grp.index),
                                     !.name = look.grp.name],
              errors |-> <<>>]

\* The node's own resolution (the SEL_GROUPREF branch): the node after it
\* and the messages it appends.
ResolveGroupRef(root, grps) ==
    IF root.type # "SEL_GROUPREF"
    THEN [node |-> root, errors |-> <<>>]
    ELSE LET look == IF grps.isNull
                     THEN [found |-> FALSE, grp |-> NoGroup]
                     ELSE IF root.u.byName
                          THEN IndexGrpsFind(grps, root.u.name)
                          ELSE IndexGrpsExtract(grps, root.u.id)
         IN  IF look.found
             THEN [node |-> [root EXCEPT !.type = "SEL_CONST",
                                         !.u = CGrp(look.grp.name, look.grp.index),
                                         !.name = look.grp.name],
                   errors |-> <<>>]
             ELSE [node |-> root, errors |-> <<UnknownGroupMsg>>]

RECURSIVE resolveExternalGroups(_, _)
RECURSIVE ResolveChildren(_, _)

\* The node, then each child in order, all errors collected.
resolveExternalGroups(root, grps) ==
    LET own == ResolveGroupRef(root, grps)
        sub == ResolveChildren(own.node.child, grps)
    IN  [node |-> [own.node EXCEPT !.child = sub.nodes],
         errors |-> own.errors \o sub.errors]

ResolveChildren(children, grps) ==
    IF children = <<>>
    THEN [nodes |-> <<>>, errors |-> <<>>]
    ELSE LET first == resolveExternalGroups(Head(children), grps)
             rest == ResolveChildren(Tail(children), grps)
         IN  [nodes |-> <<first.node>> \o rest.nodes,
              errors |-> first.errors \o rest.errors]

(***************************************************************************)
(* State.                                                                  *)
(***************************************************************************)
VARIABLES
    alive,               \* the process has not been aborted by an assertion
    debugBuild,          \* GMX_ASSERT is compiled in (no NDEBUG)
    sel,                 \* sc_.sel: the selections, in order
    root,                \* sc_.root: the forest, one tree per selection
    grps,                \* impl_->grps_
    bExternalGroupsSet,  \* impl_->bExternalGroupsSet_
    top,                 \* sc_.top
    gall,                \* size of sc_.gall, the all-atoms universe
    rpost,               \* impl_->rpost_
    spost,               \* impl_->spost_
    compiled,            \* the compiler has processed the forest
    pcc,                 \* sc_.pcc: initEvaluation done, initFrame calls
    evaluator,           \* calls handed to SelectionEvaluator
    rp,                  \* the activation of runParser, and its position
    call,                \* the last facade call and how it ended
    everBound,           \* setIndexGroups has run, called directly or by compile
    debugLevel,          \* impl_->debugLevel_
    dumped,              \* what the last compile or evaluate printed to stderr
    mempool,             \* sc_.mempool is not NULL
    released,            \* the members ~Impl has dealt with so far, in order
    prompt,              \* an activation of promptLine on a file of characters
    genpr                \* a run of the tool gmx_genpr (gmx_genpr.c)

vars == << alive, debugBuild, sel, root, grps, bExternalGroupsSet, top, gall,
           rpost, spost, compiled, pcc, evaluator, rp, call, everBound,
           debugLevel, dumped, mempool, released, prompt, genpr >>

\* Variables the parse calls leave alone.
facadeVarsButPrompt ==
    << debugBuild, grps, bExternalGroupsSet, top, gall, rpost, spost, compiled,
       pcc, evaluator, everBound, debugLevel, dumped, mempool, released >>

facadeVars == << facadeVarsButPrompt, prompt, genpr >>

(***************************************************************************)
(* The push parser (_gmx_sel_yypush_parse) and the lexer (_gmx_sel_yylex), *)
(* from their described behaviour: an expression followed by a separator   *)
(* is one selection; an error is reported to the collector and the parser  *)
(* recovers at the next separator; at the end of input inside a command    *)
(* the parse fails; with a positive selection count the parser accepts as  *)
(* soon as that many selections were added.                                *)
(***************************************************************************)
ParserStart == [mode |-> "start", cur |-> ""]

\* Result of pushing tok: the parser's new state, the status, the messages
\* reported and the trees added.
YYPushParse(ps, tok, added, maxnr) ==
    CASE tok = YYEOF ->
           IF ps.mode = "start"
           THEN [ps |-> ps, status |-> 0, msgs |-> <<>>, add |-> <<>>]
           ELSE [ps |-> ps, status |-> 1,
                 msgs |-> IF ps.mode = "expr" THEN <<SyntaxErrorMsg>> ELSE <<>>,
                 add |-> <<>>]
      [] tok = CMD_SEP ->
           IF ps.mode = "expr"
           THEN [ps |-> ParserStart,
                 status |-> IF maxnr > 0 /\ added + 1 = maxnr
                            THEN 0 ELSE YYPUSH_MORE,
                 msgs |-> <<>>, add |-> <<TreeOf(ps.cur)>>]
           ELSE [ps |-> ParserStart, status |-> YYPUSH_MORE,
                 msgs |-> <<>>, add |-> <<>>]
      [] tok \in ExprTokens /\ ps.mode = "start" ->
           [ps |-> [mode |-> "expr", cur |-> tok], status |-> YYPUSH_MORE,
            msgs |-> <<>>, add |-> <<>>]
      [] OTHER ->
           [ps |-> [mode |-> "error", cur |-> ""], status |-> YYPUSH_MORE,
            msgs |-> IF ps.mode = "error" THEN <<>> ELSE <<SyntaxErrorMsg>>,
            add |-> <<>>]

\* The tokens of a line handed to the lexer with "\n" appended: the newline
\* is a separator for an interactive lexer and white space otherwise.
LexLine(line, bInteractive) ==
    IF bInteractive THEN Append(line, CMD_SEP) ELSE line

\* _gmx_sel_yylex: the next token of the buffer, 0 at its end.
YYLex(lexbuf) == IF lexbuf = <<>> THEN YYEOF ELSE Head(lexbuf)

(***************************************************************************)
(* runParser and runParserLoop.                                            *)
(***************************************************************************)
IdleFrame ==
    [pc |-> "idle", entry |-> "", bStdIn |-> FALSE, bInteractive |-> FALSE,
     maxnr |-> -1, oldCount |-> 0, status |-> YYPUSH_MORE, bOk |-> FALSE,
     errors |-> <<>>, logged |-> <<>>, printed |-> <<>>, ps |-> ParserStart,
     lexbuf |-> <<>>, stdin |-> <<>>, loopInteractive |-> FALSE,
     prevToken |-> YYEOF, lexed |-> <<>>, pushed |-> <<>>, pushedAll |-> <<>>,
     added |-> 0, result |-> <<>>]

\* How a call ended: its argument, its result, the text of what it threw, and
\* the steps of its body it went through, in order.
Ended(op, arg, result, text, did) ==
    [op |-> op, arg |-> arg, result |-> result, text |-> text, did |-> did]

\* No parse call is running: a facade call may start.
Callable ==
    alive /\ released = <<>> /\ rp.pc \in {"idle", "returned", "thrown"}

\* The frame of runParser on entry (lines 226-236).
EntryFrame(entry, bStdIn, bInteractive, maxnr) ==
    [IdleFrame EXCEPT !.entry = entry, !.bStdIn = bStdIn,
                      !.bInteractive = bInteractive, !.maxnr = maxnr,
                      !.oldCount = Len(sel)]

\* A loop that pushes every separator it reads.
EmptyCommandNever(prevToken, token) == FALSE

\* The interactive loop skips a separator that follows a pushed separator.
EmptyCommand(prevToken, token) == prevToken = CMD_SEP /\ token = CMD_SEP

\* Number of expression tokens of a token sequence: no more selections than
\* that can be added by parsing it.
RECURSIVE ExprCount(_)
ExprCount(toks) ==
    IF toks = <<>> THEN 0
    ELSE (IF Head(toks) \in ExprTokens THEN 1 ELSE 0) + ExprCount(Tail(toks))

RECURSIVE Flatten(_)
Flatten(lines) ==
    IF lines = <<>> THEN <<>> ELSE Head(lines) \o Flatten(Tail(lines))

\* A runParser that prints and clears the errors between any two lines.
AfterLoopClearAlways(f) ==
    IF f.bStdIn
    THEN IF f.status # YYPUSH_MORE
         THEN [f EXCEPT !.pc = "finish", !.bOk = (f.status = 0)]
         ELSE IF f.errors # <<>>
              THEN [f EXCEPT !.pc = "prompt", !.errors = <<>>,
                             !.printed = f.printed \o f.errors]
              ELSE [f EXCEPT !.pc = "prompt"]
    ELSE [f EXCEPT !.pc = "finish", !.bOk = (f.status = 0)]

\* A runParser that reads the next line whatever the status of the last.
AfterLoopKeepReading(f) ==
    IF f.bStdIn
    THEN IF f.errors # <<>> /\ f.bInteractive
         THEN [f EXCEPT !.pc = "prompt", !.errors = <<>>,
                        !.printed = f.printed \o f.errors]
         ELSE [f EXCEPT !.pc = "prompt"]
    ELSE [f EXCEPT !.pc = "finish", !.bOk = (f.status = 0)]

\* A runParser that keeps the errors of a line when it prompts again.
AfterLoopNeverClear(f) ==
    IF f.bStdIn
    THEN IF f.status # YYPUSH_MORE
         THEN [f EXCEPT !.pc = "finish", !.bOk = (f.status = 0)]
         ELSE [f EXCEPT !.pc = "prompt"]
    ELSE [f EXCEPT !.pc = "finish", !.bOk = (f.status = 0)]

\* runParserLoop has returned status (in f.status): what runParser does next
\* (lines 248-258 for stdin, 269 otherwise).
AfterLoop(f) ==
    IF f.bStdIn
    THEN IF f.status # YYPUSH_MORE
         THEN [f EXCEPT !.pc = "finish", !.bOk = (f.status = 0)]
         ELSE IF f.errors # <<>> /\ f.bInteractive
              THEN [f EXCEPT !.pc = "prompt", !.errors = <<>>,
                             !.printed = f.printed \o f.errors]
              ELSE [f EXCEPT !.pc = "prompt"]
    ELSE [f EXCEPT !.pc = "finish", !.bOk = (f.status = 0)]

\* A parse of a text that runs the token loop in its interactive mode.
StartTextParseInteractive(entry, text) ==
    /\ Callable
    /\ Len(sel) + ExprCount(text) <= MaxSel
    /\ rp' = [EntryFrame(entry, FALSE, FALSE, -1) EXCEPT
                 !.pc = "loop", !.lexbuf = text, !.loopInteractive = TRUE]
    /\ call' = Ended(entry, text, "running", <<>>, <<>>)
    /\ UNCHANGED << alive, sel, root, facadeVars >>

\* parseFromString / parseFromFile: the lexer reads the whole text and
\* runParser calls runParserLoop(scanner, parserState, false).
StartTextParse(entry, text) ==
    /\ Callable
    /\ Len(sel) + ExprCount(text) <= MaxSel
    /\ rp' = [EntryFrame(entry, FALSE, FALSE, -1) EXCEPT
                 !.pc = "loop", !.lexbuf = text, !.loopInteractive = FALSE]
    /\ call' = Ended(entry, text, "running", <<>>, <<>>)
    /\ UNCHANGED << alive, sel, root, facadeVars >>

ParseFromString(str) == StartTextParse("parseFromString", str)

ParseFromFile(text) == StartTextParse("parseFromFile", text)

\* parseFromStdin(nr, bInteractive): runParser(scanner, true, nr).
ParseFromStdin(nr, bInteractive, lines) ==
    /\ Callable
    /\ Len(sel) + ExprCount(Flatten(lines)) <= MaxSel
    /\ rp' = [EntryFrame("parseFromStdin", TRUE, bInteractive, nr) EXCEPT
                 !.pc = "prompt", !.stdin = lines]
    /\ call' = Ended("parseFromStdin", << nr, bInteractive, lines >>, "running",
                     <<>>, <<>>)
    /\ UNCHANGED << alive, sel, root, facadeVars >>

\* promptLine at the head of the while loop (line 243): at the end of input
\* the loop ends; otherwise the line becomes the lexer's input and
\* runParserLoop(scanner, parserState, true) starts.
PromptLine ==
    /\ alive /\ rp.pc = "prompt"
    /\ IF rp.stdin = <<>>
       THEN rp' = [rp EXCEPT !.pc = "eof"]
       ELSE rp' = [rp EXCEPT !.pc = "loop",
                             !.stdin = Tail(rp.stdin),
                             !.lexbuf = LexLine(Head(rp.stdin), rp.bInteractive),
                             !.loopInteractive = TRUE,
                             !.status = YYPUSH_MORE,
                             !.prevToken = YYEOF,
                             !.lexed = <<>>,
                             !.pushed = <<>>]
    /\ UNCHANGED << alive, sel, root, call, facadeVars >>

\* Pushing token to the parser: the frame and the collection afterwards.
PushToken(f, token) ==
    LET r == YYPushParse(f.ps, token, Len(sel) - f.oldCount, f.maxnr)
    IN  [frame |-> [f EXCEPT !.ps = r.ps, !.status = r.status,
                             !.errors = f.errors \o r.msgs,
                             !.logged = f.logged \o r.msgs,
                             !.pushed = Append(f.pushed, token),
                             !.pushedAll = Append(f.pushedAll, token),
                             !.added = f.added + Len(r.add)],
         add |-> r.add]

\* One iteration of the do-while loop of runParserLoop (lines 182-203), and
\* when the loop ends, the return into runParser.
LoopIter ==
    /\ alive /\ rp.pc = "loop"
    /\ LET token == YYLex(rp.lexbuf)
           f0 == [rp EXCEPT !.lexbuf = IF rp.lexbuf = <<>> THEN <<>>
                                       ELSE Tail(rp.lexbuf),
                            !.lexed = Append(rp.lexed, token)]
       IN  IF rp.loopInteractive /\ token = YYEOF
           THEN \* break
                /\ rp' = AfterLoop(f0)
                /\ UNCHANGED << sel, root >>
           ELSE IF rp.loopInteractive /\ EmptyCommand(rp.prevToken, token)
           THEN \* continue: status is still YYPUSH_MORE
                /\ rp' = f0
                /\ UNCHANGED << sel, root >>
           ELSE LET f1 == IF rp.loopInteractive
                          THEN [f0 EXCEPT !.prevToken = token] ELSE f0
                    p == PushToken(f1, token)
                IN  /\ rp' = IF p.frame.status = YYPUSH_MORE
                             THEN p.frame ELSE AfterLoop(p.frame)
                    /\ root' = root \o p.add
                    /\ sel' = IF p.add = <<>> THEN sel
                              ELSE Append(sel, Len(sel) + 1)
    /\ UNCHANGED << alive, call, facadeVars >>

\* End of stdin with the parser still wanting more (lines 260-264).
PushEof ==
    /\ alive /\ rp.pc = "eof"
    /\ LET r == YYPushParse(rp.ps, YYEOF, Len(sel) - rp.oldCount, rp.maxnr)
       IN  rp' = [rp EXCEPT !.ps = r.ps, !.status = r.status,
                            !.errors = rp.errors \o r.msgs,
                            !.logged = rp.logged \o r.msgs,
                            !.pushedAll = Append(rp.pushedAll, YYEOF),
                            !.bOk = (r.status = 0), !.pc = "finish"]
    /\ UNCHANGED << alive, sel, root, call, facadeVars >>

\* The count check of line 274.
CountMismatch(maxnr, nr) == maxnr > 0 /\ nr # maxnr

\* The failure test of line 281.
ParseFailed(bOk, errors) == ~bOk \/ errors # <<>>

\* A runParser that returns every selection of the collection.
ReturnedSelectionsAll(s, oldCount) == s

\* The selections runParser returns (lines 287-294).
ReturnedSelections(s, oldCount) == SubSeq(s, oldCount + 1, Len(s))

\* The tail of runParser (lines 272-294).
Finish ==
    /\ alive /\ rp.pc = "finish"
    /\ LET nr == Len(sel) - rp.oldCount
           mismatch == CountMismatch(rp.maxnr, nr)
           bOk == IF mismatch THEN FALSE ELSE rp.bOk
           errors == IF mismatch THEN Append(rp.errors, TooFewMsg) ELSE rp.errors
           logged == IF mismatch THEN Append(rp.logged, TooFewMsg) ELSE rp.logged
           f == [rp EXCEPT !.bOk = bOk, !.errors = errors, !.logged = logged]
       IN  IF ParseFailed(bOk, errors)
           THEN IF debugBuild /\ ~(~bOk /\ errors # <<>>)
                THEN \* GMX_ASSERT "Inconsistent error reporting"
                     /\ alive' = FALSE
                     /\ rp' = [f EXCEPT !.pc = "aborted"]
                     /\ call' = [call EXCEPT !.result = "AssertionFailure"]
                ELSE /\ alive' = alive
                     /\ rp' = [f EXCEPT !.pc = "thrown"]
                     /\ call' = [call EXCEPT !.result = "InvalidInputError",
                                             !.text = errors]
           ELSE /\ alive' = alive
                /\ rp' = [f EXCEPT !.pc = "returned",
                                   !.result = ReturnedSelections(sel, rp.oldCount)]
                /\ call' = [call EXCEPT !.result = "ok"]
    /\ UNCHANGED << sel, root, facadeVars >>

(***************************************************************************)
(* The facade: setTopology, setIndexGroups, position types, compile,       *)
(* evaluate, evaluateFinal.                                                *)
(***************************************************************************)
MissingTopologyMsg == "Selection requires topology information, but none provided"

\* An assertion failed: the process is aborted where it stands.
Abort(op, arg) ==
    /\ alive' = FALSE
    /\ call' = Ended(op, arg, "AssertionFailure", <<>>, <<>>)
    /\ rp' = IdleFrame
    /\ UNCHANGED << sel, root, facadeVars >>

\* A setTopology that takes the size of the universe from the topology
\* whenever it is given one.
SetTopologyFromAtoms(t, natoms) ==
    /\ Callable
    /\ IF ~(natoms > 0 \/ ~t.isNull)
       THEN Abort("setTopology", << t, natoms >>)
       ELSE /\ gall' = IF ~t.isNull THEN t.nr ELSE natoms
            /\ top' = t
            /\ call' = Ended("setTopology", << t, natoms >>, "ok", <<>>, <<>>)
            /\ rp' = IdleFrame
            /\ UNCHANGED << alive, debugBuild, sel, root, grps,
                            bExternalGroupsSet, rpost, spost, compiled, pcc,
                            evaluator, everBound, debugLevel, dumped,
                            mempool, released, prompt, genpr >>

\* setTopology(top, natoms), lines 432-447.
SetTopology(t, natoms) ==
    /\ Callable
    /\ IF ~(natoms > 0 \/ ~t.isNull)
       THEN Abort("setTopology", << t, natoms >>)
       ELSE /\ gall' = IF natoms <= 0 THEN t.nr ELSE natoms
            /\ top' = t
            /\ call' = Ended("setTopology", << t, natoms >>, "ok", <<>>, <<>>)
            /\ rp' = IdleFrame
            /\ UNCHANGED << alive, debugBuild, sel, root, grps,
                            bExternalGroupsSet, rpost, spost, compiled, pcc,
                            evaluator, everBound, debugLevel, dumped,
                            mempool, released, prompt, genpr >>

\* The assertion of setIndexGroups (line 453).
MayBindGroups(g, alreadySet) == g.isNull \/ ~alreadySet

\* A binding that forgets to set the flag.
BindGroupsNoFlag(g, forest) ==
    LET r == ResolveChildren(forest, g)
    IN  [grps |-> g, flag |-> FALSE, root |-> r.nodes, errors |-> r.errors]

\* A binding that fails fast: at the first unknown group it gives up, with
\* that one message and the forest as it was.
BindGroupsFailFast(g, forest) ==
    LET r == ResolveChildren(forest, g)
    IN  IF r.errors = <<>>
        THEN [grps |-> g, flag |-> TRUE, root |-> r.nodes, errors |-> <<>>]
        ELSE [grps |-> g, flag |-> TRUE, root |-> forest,
              errors |-> << Head(r.errors) >>]

\* setIndexGroups after its assertion (lines 455-464): the group set and the
\* flag are stored, then every root is resolved and the errors collected.
BindGroups(g, forest) ==
    LET r == ResolveChildren(forest, g)
    IN  [grps |-> g, flag |-> TRUE, root |-> r.nodes, errors |-> r.errors]

\* setIndexGroups(grps), lines 450-469.
SetIndexGroups(g) ==
    /\ Callable
    /\ IF ~MayBindGroups(g, bExternalGroupsSet)
       THEN Abort("setIndexGroups", g)
       ELSE LET b == BindGroups(g, root)
            IN  /\ grps' = b.grps
                /\ bExternalGroupsSet' = b.flag
                /\ root' = b.root
                /\ everBound' = TRUE
                /\ call' = IF b.errors # <<>>
                           THEN Ended("setIndexGroups", g, "InvalidInputError",
                                      b.errors, <<"resolve">>)
                           ELSE Ended("setIndexGroups", g, "ok", <<>>,
                                      <<"resolve">>)
                /\ rp' = IdleFrame
                /\ UNCHANGED << alive, debugBuild, sel, top, gall, rpost, spost,
                                compiled, pcc, evaluator, debugLevel, dumped,
                                mempool, released, prompt, genpr >>

\* setReferencePosType(type), lines 401-410: the name is checked, then stored.
SetReferencePosType(type) ==
    /\ Callable
    /\ IF TypeFromEnum(type) = "throws"
       THEN /\ call' = Ended("setReferencePosType", type, "InvalidInputError",
                             <<>>, <<>>)
            /\ UNCHANGED rpost
       ELSE /\ call' = Ended("setReferencePosType", type, "ok", <<>>, <<>>)
            /\ rpost' = type
    /\ rp' = IdleFrame
    /\ UNCHANGED << alive, debugBuild, sel, root, grps, bExternalGroupsSet, top,
                    gall, spost, compiled, pcc, evaluator, everBound,
                    debugLevel, dumped, mempool, released, prompt, genpr >>

\* A setOutputPosType that stores the name before it checks it.
SetOutputPosTypeStoreFirst(type) ==
    /\ Callable
    /\ spost' = type
    /\ call' = Ended("setOutputPosType", type,
                     IF TypeFromEnum(type) = "throws"
                     THEN "InvalidInputError" ELSE "ok", <<>>, <<>>)
    /\ rp' = IdleFrame
    /\ UNCHANGED << alive, debugBuild, sel, root, grps, bExternalGroupsSet, top,
                    gall, rpost, compiled, pcc, evaluator, everBound,
                    debugLevel, dumped, mempool, released, prompt, genpr >>

\* setOutputPosType(type), lines 413-422.
SetOutputPosType(type) ==
    /\ Callable
    /\ IF TypeFromEnum(type) = "throws"
       THEN /\ call' = Ended("setOutputPosType", type, "InvalidInputError",
                             <<>>, <<>>)
            /\ UNCHANGED spost
       ELSE /\ call' = Ended("setOutputPosType", type, "ok", <<>>, <<>>)
            /\ spost' = type
    /\ rp' = IdleFrame
    /\ UNCHANGED << alive, debugBuild, sel, root, grps, bExternalGroupsSet, top,
                    gall, rpost, compiled, pcc, evaluator, everBound,
                    debugLevel, dumped, mempool, released, prompt, genpr >>

\* initOptions(options), lines 369-397: the two position type options are
\* added with their default, the first of typeEnumValues, stored in rpost_
\* and spost_; the debug level is asserted to be one of the five levels and
\* the debug option is added with that level as its default.
InitOptions ==
    /\ Callable
    /\ rpost' = "atom"
    /\ spost' = "atom"
    /\ IF ~(debugLevel >= 0 /\ debugLevel <= 4)
       THEN /\ alive' = FALSE
            /\ call' = Ended("initOptions", "", "AssertionFailure", <<>>, <<>>)
       ELSE /\ alive' = alive
            /\ call' = Ended("initOptions", "", "ok", <<>>, <<>>)
    /\ rp' = IdleFrame
    /\ UNCHANGED << debugBuild, sel, root, grps, bExternalGroupsSet, top, gall,
                    compiled, pcc, evaluator, everBound, debugLevel, dumped,
                    mempool, released, prompt, genpr >>

\* setDebugLevel(debugLevel), lines 425-429: any integer is stored.
SetDebugLevel(level) ==
    /\ Callable
    /\ debugLevel' = level
    /\ call' = Ended("setDebugLevel", level, "ok", <<>>, <<>>)
    /\ rp' = IdleFrame
    /\ UNCHANGED << alive, debugBuild, sel, root, grps, bExternalGroupsSet, top,
                    gall, rpost, spost, compiled, pcc, evaluator, everBound,
                    dumped, mempool, released, prompt, genpr >>

\* A requiresTopology that looks at the reference position type and at the
\* trees only.
RequiresTopologyNoOutput(rp_type, sp_type, forest) ==
    \/ rp_type # "" /\ TypeFromEnum(rp_type) # "POS_ATOM"
    \/ \E i \in 1..Len(forest) : RequiresTop(forest[i])

\* requiresTopology(), lines 472-511.
RequiresTopology(rp_type, sp_type, forest) ==
    \/ rp_type # "" /\ TypeFromEnum(rp_type) # "POS_ATOM"
    \/ sp_type # "" /\ TypeFromEnum(sp_type) # "POS_ATOM"
    \/ \E i \in 1..Len(forest) : RequiresTop(forest[i])

\* A call of requiresTopology(): a const member that returns its answer.
RequiresTopologyCall ==
    /\ Callable
    /\ call' = Ended("requiresTopology", "",
                     IF RequiresTopology(rpost, spost, root)
                     THEN "true" ELSE "false", <<>>, <<>>)
    /\ UNCHANGED << alive, sel, root, rp, facadeVars >>

\* A topology check that looks at the trees only.
TopologyMissingTreesOnly(t, rp_type, sp_type, forest) ==
    t.isNull /\ \E i \in 1..Len(forest) : RequiresTop(forest[i])

\* The topology check of compile (line 567).
TopologyMissing(t, rp_type, sp_type, forest) ==
    t.isNull /\ RequiresTopology(rp_type, sp_type, forest)

\* A compile that never resolves the groups itself.
NeverImplicitBind(alreadySet) == FALSE

\* compile resolves the groups itself when none were set (line 571).
NeedsImplicitBind(alreadySet) == ~alreadySet

(***************************************************************************)
(* The position calculation collection (sc_.pcc), from its described       *)
(* behaviour: a calculation is identified by its position type, its flags  *)
(* and its source index set; a request for one that exists returns the     *)
(* existing one; initFrame marks every calculation as not computed, and a  *)
(* calculation that is asked for its positions computes them unless it     *)
(* has already done so in this frame.                                      *)
(***************************************************************************)
\* The index set a selection takes its positions from: the group of a
\* resolved group selection, or what its expression evaluates to.
SelectionIndexSet(tree) ==
    IF Len(tree.child) = 1 /\ tree.child[1].type = "SEL_CONST"
    THEN [static |-> TRUE, index |-> tree.child[1].u.index, expr |-> ""]
    ELSE [static |-> FALSE, index |-> <<>>, expr |-> tree.name]

\* The output positions a selection asks for.
PositionRequest(tree, sp_type) ==
    [type |-> IF sp_type = "" THEN "POS_ATOM" ELSE TypeFromEnum(sp_type),
     flags |-> 0,
     g |-> SelectionIndexSet(tree)]

SameCalculation(c, req) ==
    c.type = req.type /\ c.flags = req.flags /\ c.g = req.g

\* A collection that makes a new calculation for every request.
CreateCalculationAlways(calcs, req) ==
    Append(calcs, [type |-> req.type, flags |-> req.flags, g |-> req.g,
                   computed |-> FALSE, frame |-> 0, ncomputed |-> 0])

\* PositionCalculationCollection::createCalculation.
CreateCalculation(calcs, req) ==
    IF \E i \in 1..Len(calcs) : SameCalculation(calcs[i], req)
    THEN calcs
    ELSE Append(calcs, [type |-> req.type, flags |-> req.flags, g |-> req.g,
                        computed |-> FALSE, frame |-> 0, ncomputed |-> 0])

\* The handle of the calculation that serves a request.
CalculationOf(calcs, req) ==
    CHOOSE i \in 1..Len(calcs) : SameCalculation(calcs[i], req)

\* The compiler registers the positions of every selection, in order.
RECURSIVE RegisterPositions(_, _, _)
RegisterPositions(calcs, forest, sp_type) ==
    IF forest = <<>> THEN calcs
    ELSE RegisterPositions(
             CreateCalculation(calcs, PositionRequest(Head(forest), sp_type)),
             Tail(forest), sp_type)

\* PositionCalculationCollection::initFrame.
PccInitFrame(calcs) ==
    [i \in 1..Len(calcs) |->
        [calcs[i] EXCEPT !.computed = FALSE, !.ncomputed = 0]]

\* gmx_ana_poscalc_update: the positions are computed once per frame.
UpdateCalculation(c, frame) ==
    IF c.computed THEN c
    ELSE [c EXCEPT !.computed = TRUE, !.frame = frame,
                   !.ncomputed = c.ncomputed + 1]

\* The evaluator asks for the positions of every selection, in order.
RECURSIVE EvaluatePositions(_, _, _)
EvaluatePositions(calcs, handles, frame) ==
    IF handles = <<>> THEN calcs
    ELSE EvaluatePositions(
             [calcs EXCEPT ![Head(handles)] =
                 UpdateCalculation(calcs[Head(handles)], frame)],
             Tail(handles), frame)

\* SelectionCompiler::compile, from its described behaviour: a group
\* reference that is still unresolved is a compile error; otherwise every
\* tree of the forest is compiled.
SelectionCompilerCompile(forest) ==
    IF \E i \in 1..Len(forest) : HasType(forest[i], "SEL_GROUPREF")
    THEN [ok |-> FALSE, n |-> 0]
    ELSE [ok |-> TRUE, n |-> Len(forest)]

\* printTree(stderr, bValues), lines 624-633, and sc_.pcc.printTree(stderr):
\* what a debug dump prints.
ForestDump(bValues) == [what |-> "forest", bValues |-> bValues]
PccDump == [what |-> "pcc", bValues |-> FALSE]

\* The dump of compile before the compiler runs (lines 575-578).
CompileDumpsBefore(level) ==
    IF level >= 1 THEN << ForestDump(FALSE) >> ELSE <<>>

\* The dumps of compile between the compiler and initEvaluation (583-590).
CompileDumpsAfter(level) ==
    IF level >= 1 THEN << ForestDump(FALSE), PccDump >> ELSE <<>>

\* The dump of compile after initEvaluation (lines 592-596).
CompileDumpsInitialized(level) ==
    IF level >= 1 THEN << PccDump >> ELSE <<>>

\* An evaluate that dumps at every level that compile dumps at.
EvaluateDumpsBasic(level) ==
    IF level >= 1 THEN << ForestDump(TRUE) >> ELSE <<>>

\* The dump of evaluate after the evaluator has run (lines 608-612).
EvaluateDumps(level) ==
    IF level >= 3 THEN << ForestDump(TRUE) >> ELSE <<>>

\* Every tree of the forest has been compiled.
IsCompiled == compiled.done /\ compiled.n = Len(root)

\* compile(), lines 564-597.
Compile ==
    /\ Callable
    /\ rp' = IdleFrame
    /\ IF TopologyMissing(top, rpost, spost, root)
       THEN /\ call' = Ended("compile", "", "InconsistentInputError",
                             <<MissingTopologyMsg>>, <<>>)
            /\ dumped' = <<>>
            /\ UNCHANGED << grps, bExternalGroupsSet, root, compiled, pcc,
                            everBound, mempool >>
       ELSE LET implicit == NeedsImplicitBind(bExternalGroupsSet)
                b == IF implicit
                     THEN BindGroups(NullGrps, root)
                     ELSE [grps |-> grps, flag |-> bExternalGroupsSet,
                           root |-> root, errors |-> <<>>]
                c == SelectionCompilerCompile(b.root)
                bound == IF implicit THEN <<"resolve">> ELSE <<>>
            IN  /\ grps' = b.grps
                /\ bExternalGroupsSet' = b.flag
                /\ root' = b.root
                /\ everBound' = (everBound \/ implicit)
                /\ IF b.errors # <<>>
                   THEN /\ call' = Ended("compile", "", "InvalidInputError",
                                         b.errors, bound)
                        /\ dumped' = <<>>
                        /\ UNCHANGED << compiled, pcc, mempool >>
                   ELSE IF ~c.ok
                   THEN /\ call' = Ended("compile", "", "CompileError", <<>>,
                                         bound \o <<"compiler">>)
                        /\ dumped' = CompileDumpsBefore(debugLevel)
                        /\ mempool' = TRUE
                        /\ UNCHANGED << compiled, pcc >>
                   ELSE /\ call' = Ended("compile", "", "ok", <<>>,
                                         bound \o <<"compiler", "initEvaluation">>)
                        /\ dumped' = CompileDumpsBefore(debugLevel)
                                      \o CompileDumpsAfter(debugLevel)
                                      \o CompileDumpsInitialized(debugLevel)
                        /\ mempool' = TRUE
                        /\ LET calcs == RegisterPositions(pcc.calcs, b.root, spost)
                           IN  /\ compiled' =
                                     [done |-> TRUE, n |-> c.n,
                                      pos |-> [i \in 1..Len(b.root) |->
                                                 CalculationOf(calcs,
                                                     PositionRequest(b.root[i],
                                                                     spost))]]
                               /\ pcc' = [pcc EXCEPT !.initEvaluation = TRUE,
                                                     !.calcs = calcs]
    /\ UNCHANGED << alive, debugBuild, sel, top, gall, rpost, spost, evaluator,
                    debugLevel, released, prompt, genpr >>

\* SelectionEvaluator::evaluate / evaluateFinal, from the described life
\* cycle: evaluating a collection that is not compiled is a fatal
\* programming error.
SelectionEvaluatorAccepts(isCompiled) == isCompiled

\* An evaluate that checks the life cycle before it does anything.
EvaluateGuarded ==
    /\ Callable
    /\ evaluator.frames + evaluator.finals < MaxFrames
    /\ rp' = IdleFrame
    /\ IF IsCompiled
       THEN /\ call' = Ended("evaluate", "", "ok", <<>>,
                             <<"initFrame", "evaluator">>)
            /\ pcc' = [pcc EXCEPT !.frames = pcc.frames + 1]
            /\ evaluator' = [evaluator EXCEPT !.frames = evaluator.frames + 1]
            /\ dumped' = EvaluateDumps(debugLevel)
            /\ alive' = alive
       ELSE /\ call' = Ended("evaluate", "", "ProgrammingStateError", <<>>,
                             <<>>)
            /\ alive' = FALSE
            /\ dumped' = <<>>
            /\ UNCHANGED << pcc, evaluator >>
    /\ UNCHANGED << debugBuild, sel, root, grps, bExternalGroupsSet, top, gall,
                    rpost, spost, compiled, everBound, debugLevel, mempool,
                    released, prompt, genpr >>

\* An evaluate that leaves the per-frame state of the position calculations
\* as the frame before left it.
EvaluateNoInitFrame ==
    /\ Callable
    /\ evaluator.frames + evaluator.finals < MaxFrames
    /\ rp' = IdleFrame
    /\ evaluator' = [evaluator EXCEPT !.frames = evaluator.frames + 1]
    /\ IF SelectionEvaluatorAccepts(IsCompiled)
       THEN /\ call' = Ended("evaluate", "", "ok", <<>>,
                             <<"evaluator">>)
            /\ pcc' = [pcc EXCEPT
                          !.frames = pcc.frames + 1,
                          !.calcs = EvaluatePositions(pcc.calcs,
                                                  compiled.pos,
                                                  pcc.frames + 1)]
            /\ dumped' = EvaluateDumps(debugLevel)
            /\ alive' = alive
       ELSE /\ call' = Ended("evaluate", "", "ProgrammingStateError", <<>>,
                             <<"evaluator">>)
            /\ pcc' = [pcc EXCEPT !.frames = pcc.frames + 1]
            /\ alive' = FALSE
            /\ dumped' = <<>>
    /\ UNCHANGED << debugBuild, sel, root, grps, bExternalGroupsSet, top, gall,
                    rpost, spost, compiled, everBound, debugLevel, mempool,
                    released, prompt, genpr >>

\* evaluate(fr, pbc), lines 600-613.
Evaluate ==
    /\ Callable
    /\ evaluator.frames + evaluator.finals < MaxFrames
    /\ rp' = IdleFrame
    /\ evaluator' = [evaluator EXCEPT !.frames = evaluator.frames + 1]
    /\ IF SelectionEvaluatorAccepts(IsCompiled)
       THEN /\ call' = Ended("evaluate", "", "ok", <<>>,
                             <<"initFrame", "evaluator">>)
            /\ pcc' = [pcc EXCEPT
                          !.frames = pcc.frames + 1,
                          !.calcs = EvaluatePositions(PccInitFrame(pcc.calcs),
                                                      compiled.pos,
                                                      pcc.frames + 1)]
            /\ dumped' = EvaluateDumps(debugLevel)
            /\ alive' = alive
       ELSE /\ call' = Ended("evaluate", "", "ProgrammingStateError", <<>>,
                             <<"initFrame", "evaluator">>)
            /\ pcc' = [pcc EXCEPT !.frames = pcc.frames + 1,
                                  !.calcs = PccInitFrame(pcc.calcs)]
            /\ alive' = FALSE
            /\ dumped' = <<>>
    /\ UNCHANGED << debugBuild, sel, root, grps, bExternalGroupsSet, top, gall,
                    rpost, spost, compiled, everBound, debugLevel, mempool,
                    released, prompt, genpr >>

\* evaluateFinal(nframes), lines 616-621.
EvaluateFinal ==
    /\ Callable
    /\ evaluator.frames + evaluator.finals < MaxFrames
    /\ rp' = IdleFrame
    /\ evaluator' = [evaluator EXCEPT !.finals = evaluator.finals + 1]
    /\ IF SelectionEvaluatorAccepts(IsCompiled)
       THEN /\ call' = Ended("evaluateFinal", "", "ok", <<>>, <<"evaluator">>)
            /\ alive' = alive
       ELSE /\ call' = Ended("evaluateFinal", "", "ProgrammingStateError", <<>>,
                             <<"evaluator">>)
            /\ alive' = FALSE
    /\ UNCHANGED << debugBuild, sel, root, grps, bExternalGroupsSet, top, gall,
                    rpost, spost, compiled, pcc, everBound, debugLevel, dumped,
                    mempool, released, prompt, genpr >>

(***************************************************************************)
(* The destructor, ~Impl (lines 92-109), statement by statement.           *)
(***************************************************************************)
\* A destructor that clears the selection data before it frees the forest.
TeardownOrderDataFirst ==
    << "symtab", "sel", "root", "varstrs", "gall", "mempool" >>

\* The members in the order of the statements that release them:
\* clearSymbolTable() (94), sc_.root.reset() (97), sc_.sel.clear() (98), the
\* variable strings (99-103), sc_.gall (104), the memory pool (105-108).
TeardownOrder ==
    << "symtab", "root", "sel", "varstrs", "gall", "mempool" >>

\* The next statement of the destructor.  The forest and the selection data
\* are gone after theirs; the pool is destroyed by its statement if there is
\* one.
Destroy ==
    /\ alive
    /\ rp.pc \in {"idle", "returned", "thrown"}
    /\ Len(released) < Len(TeardownOrder)
    /\ LET member == TeardownOrder[Len(released) + 1]
       IN  /\ released' = Append(released, member)
           /\ root' = IF member = "root" THEN <<>> ELSE root
           /\ sel' = IF member = "sel" THEN <<>> ELSE sel
           /\ gall' = IF member = "gall" THEN 0 ELSE gall
    /\ UNCHANGED << alive, debugBuild, grps, bExternalGroupsSet, top, rpost,
                    spost, compiled, pcc, evaluator, rp, call, everBound,
                    debugLevel, dumped, mempool, prompt, genpr >>

(***************************************************************************)
(* promptLine (lines 132-164) on a file of characters.                     *)
(***************************************************************************)
Backslash == "\\"
Newline == "\n"

\* gmx::endsWith(str, suffix).
EndsWith(str, suffix) ==
    /\ Len(str) >= Len(suffix)
    /\ SubSeq(str, Len(str) - Len(suffix) + 1, Len(str)) = suffix

\* File::readLine(line), from its described behaviour: the characters up to
\* and including the next newline, or up to the end of the file; false, and
\* an empty line, when there is nothing left to read.
ReadLine(infile) ==
    LET ends == {i \in 1..Len(infile) : infile[i] = Newline}
        n == IF ends = {} THEN Len(infile)
             ELSE CHOOSE i \in ends : \A j \in ends : i <= j
    IN  [ok |-> infile # <<>>,
         line |-> SubSeq(infile, 1, n),
         rest |-> SubSeq(infile, n + 1, Len(infile))]

\* A loop that appends one continuing line at most.
ContinueLineOnce(line, infile, err, bInteractive) ==
    IF EndsWith(line, << Backslash, Newline >>)
    THEN LET buffer == ReadLine(infile)
         IN  [line |-> SubSeq(line, 1, Len(line) - 2) \o buffer.line,
              infile |-> buffer.rest,
              stderr |-> err \o (IF bInteractive THEN << "... " >> ELSE <<>>)]
    ELSE [line |-> line, infile |-> infile, stderr |-> err]

\* The loop of lines 142-154: while the line read so far ends with a
\* backslash and a newline, the two are cut off and the next line of the file
\* is appended (nothing, at the end of the file).
RECURSIVE ContinueLine(_, _, _, _)
ContinueLine(line, infile, err, bInteractive) ==
    IF EndsWith(line, << Backslash, Newline >>)
    THEN LET buffer == ReadLine(infile)
         IN  ContinueLine(SubSeq(line, 1, Len(line) - 2) \o buffer.line,
                          buffer.rest,
                          err \o (IF bInteractive THEN << "... " >> ELSE <<>>),
                          bInteractive)
    ELSE [line |-> line, infile |-> infile, stderr |-> err]

\* promptLine(infile, bInteractive, line): its result, the line, what is left
\* of the file and what was printed to stderr.
promptLine(infile, bInteractive) ==
    LET err == IF bInteractive THEN << "> " >> ELSE <<>>
        first == ReadLine(infile)
    IN  IF ~first.ok
        THEN [result |-> FALSE, line |-> <<>>, infile |-> first.rest,
              stderr |-> err]
        ELSE LET c == ContinueLine(first.line, first.rest, err, bInteractive)
             IN  IF EndsWith(c.line, << Newline >>)
                 THEN [result |-> TRUE,
                       line |-> SubSeq(c.line, 1, Len(c.line) - 1),
                       infile |-> c.infile, stderr |-> c.stderr]
                 ELSE [result |-> TRUE, line |-> c.line, infile |-> c.infile,
                       stderr |-> c.stderr \o (IF bInteractive
                                               THEN << Newline >> ELSE <<>>)]

\* No activation of promptLine.
NoPrompt ==
    [pc |-> "none", bInteractive |-> FALSE, before |-> <<>>, infile |-> <<>>,
     line |-> <<>>, stderr |-> <<>>, result |-> FALSE]

\* A file that promptLine is about to be called on.
FileToRead(infile, bInteractive) ==
    [NoPrompt EXCEPT !.pc = "ready", !.bInteractive = bInteractive,
                     !.infile = infile]

\* One call of promptLine by the loop of runParser (line 243), which goes on
\* calling it until it returns false.
CallPromptLine ==
    /\ prompt.pc = "ready" \/ (prompt.pc = "returned" /\ prompt.result)
    /\ LET r == promptLine(prompt.infile, prompt.bInteractive)
       IN  prompt' = [pc |-> "returned", bInteractive |-> prompt.bInteractive,
                      before |-> prompt.infile, infile |-> r.infile,
                      line |-> r.line, stderr |-> r.stderr,
                      result |-> r.result]
    /\ UNCHANGED << alive, sel, root, rp, call, facadeVarsButPrompt, genpr >>

(***************************************************************************)
(* The tool gmx_genpr (gmx_genpr.c).  A run has three parts: the command   *)
(* line (lines 125-136), the reading of the structure file (138-146) and   *)
(* the writing of one output (148-210).  Coordinates are left out, and     *)
(* with them the distance columns of the matrix lines.                     *)
(***************************************************************************)
\* t_atoms *atoms: NULL, or nr atoms with their pdbinfo, an array of
\* B-factors or NULL.
NullAtoms == [isNull |-> TRUE, nr |-> 0, hasPdbinfo |-> FALSE, bfac |-> <<>>]

Atoms(nr, hasPdbinfo, bfac) ==
    [isNull |-> FALSE, nr |-> nr, hasPdbinfo |-> hasPdbinfo, bfac |-> bfac]

\* What init_t_atoms and read_stx_conf may leave in atoms for a structure
\* file: any number of atoms, with a B-factor each or with no pdbinfo at all.
Structures ==
    UNION { {Atoms(nr, TRUE, b) : b \in [1..nr -> {0, 1}]}
            \cup {Atoms(nr, FALSE, <<>>)} : nr \in 0..MaxAtoms }

\* What snew(x, nr) may leave in x: an array, or possibly NULL where there is
\* no atom to allocate for.
CoordinateArrays(atoms) == IF atoms.nr = 0 THEN BOOLEAN ELSE {TRUE}

\* What is in title when fprintf reads it: the title read_stx_conf has
\* stored, or whatever the array held if no structure file was read.
Titles(xfn) == IF xfn THEN {"title"} ELSE {"", "garbage"}

\* The groups get_index may return: atom numbers counted from 0, each atom
\* once, within the atoms of the structure if there is one.
IndexGroups(atoms) ==
    LET n == IF atoms.isNull THEN MaxAtoms ELSE atoms.nr
    IN  UNION { {g \in [1..k -> 0..(n - 1)] :
                    \A i, j \in 1..k : g[i] = g[j] => i = j} : k \in 0..n }

\* The default force constants (line 75).
fc == << 1000, 1000, 1000 >>

NoBFactorsMsg == "No B-factors in input file"
NoFilesMsg == "no index file and no structure file suplied"
DisreFracMsg == "disre_frac should be between 0 and 1"
DisreDistMsg == "disre_dist should be >= 0"

\* No output file has been opened.
NoOutput == [file |-> "", header |-> <<>>, body |-> <<>>]

\* No run of the tool.
NoRun ==
    [pc |-> "none",
     args |-> [of |-> FALSE, freeze |-> FALSE, freeze_level |-> 0,
               disre |-> FALSE, disre_dist_set |-> FALSE, constr |-> FALSE,
               disre_frac |-> 0, disre_dist |-> 0, xfn |-> FALSE, nfn |-> FALSE],
     bFreeze |-> FALSE, bDisre |-> FALSE, atoms |-> NullAtoms, x |-> FALSE,
     title |-> "", ind_grp |-> <<>>, mode |-> "", out |-> NoOutput,
     fatal |-> ""]

\* The run about to start on a command line.
RunOn(args) == [NoRun EXCEPT !.pc = "args", !.args = args]

\* The loop of lines 155-158, from i on: the number, counted from 1, of each
\* atom whose B-factor is at most the freeze level.
RECURSIVE FreezeLines(_, _, _)
FreezeLines(bfac, freeze_level, i) ==
    IF i >= Len(bfac) THEN <<>>
    ELSE (IF bfac[i + 1] <= freeze_level THEN << i + 1 >> ELSE <<>>)
         \o FreezeLines(bfac, freeze_level, i + 1)

\* A matrix with the whole rows: the inner loop starts at i.
RECURSIVE MatrixLinesFull(_, _, _, _, _)
MatrixLinesFull(ind_grp, bConstr, i, j, k) ==
    IF i >= Len(ind_grp) THEN <<>>
    ELSE IF j >= Len(ind_grp)
    THEN MatrixLinesFull(ind_grp, bConstr, i + 1, i + 1, k)
    ELSE << [i |-> ind_grp[i + 1] + 1, j |-> ind_grp[j + 1] + 1,
             label |-> IF bConstr THEN -1 ELSE k] >>
         \o MatrixLinesFull(ind_grp, bConstr, i, j + 1, k + 1)

\* The loops of lines 178-195, from (i, j) on with k lines written: one line
\* for each i < j, with the atom numbers counted from 1 and, for a distance
\* restraint, the label k (a constraint line has none: -1 here).
RECURSIVE MatrixLines(_, _, _, _, _)
MatrixLines(ind_grp, bConstr, i, j, k) ==
    IF i >= Len(ind_grp) THEN <<>>
    ELSE IF j >= Len(ind_grp)
    THEN MatrixLines(ind_grp, bConstr, i + 1, i + 2, k)
    ELSE << [i |-> ind_grp[i + 1] + 1, j |-> ind_grp[j + 1] + 1,
             label |-> IF bConstr THEN -1 ELSE k] >>
         \o MatrixLines(ind_grp, bConstr, i, j + 1, k + 1)

\* The loop of lines 206-208: one line for each atom of the group.
PosreLines(ind_grp) ==
    [i \in 1..Len(ind_grp) |->
        [i |-> ind_grp[i] + 1, funct |-> 1, fcx |-> fc[1], fcy |-> fc[2],
         fcz |-> fc[3]]]

\* Everything but the run of the tool.
collectionVars == << alive, sel, root, rp, call, facadeVarsButPrompt, prompt >>

\* The command line (lines 125-136): the two mode flags are derived, and a
\* command line without any input file or with a bad distance option is fatal.
GenprArgs ==
    /\ genpr.pc = "args"
    /\ LET a == genpr.args
           r == [genpr EXCEPT !.bFreeze = a.of \/ a.freeze,
                              !.bDisre = a.disre \/ a.disre_dist_set]
       IN  genpr' =
             IF ~a.nfn /\ ~a.xfn
             THEN [r EXCEPT !.pc = "fatal", !.fatal = NoFilesMsg]
             ELSE IF a.disre_frac < 0 \/ a.disre_frac >= 1
             THEN [r EXCEPT !.pc = "fatal", !.fatal = DisreFracMsg]
             ELSE IF a.disre_dist < 0
             THEN [r EXCEPT !.pc = "fatal", !.fatal = DisreDistMsg]
             ELSE [r EXCEPT !.pc = "read"]
    /\ UNCHANGED collectionVars

\* The structure file, if one was given, is read (lines 138-146).
GenprRead ==
    /\ genpr.pc = "read"
    /\ IF genpr.args.xfn
       THEN \E st \in Structures : \E x \in CoordinateArrays(st) :
               genpr' = [genpr EXCEPT !.pc = "write", !.atoms = st, !.x = x,
                                      !.title = "title"]
       ELSE genpr' = [genpr EXCEPT !.pc = "write"]
    /\ UNCHANGED collectionVars

\* The freeze branch (lines 148-160).  With B-factors at hand the run is
\* fatal.  Otherwise the file is opened and the header written; the loop
\* then reads atoms->nr and pdbinfo[i]: through a NULL pointer that is
\* undefined, the run crashes with the header flushed or not.
GenprFreeze ==
    /\ genpr.pc = "write"
    /\ genpr.bFreeze
    /\ LET atoms == genpr.atoms
           r == [genpr EXCEPT !.mode = "freeze"]
       IN  IF ~atoms.isNull /\ atoms.hasPdbinfo
           THEN genpr' = [r EXCEPT !.pc = "fatal", !.fatal = NoBFactorsMsg]
           ELSE IF atoms.isNull \/ atoms.nr > 0
           THEN \E flushed \in {<<>>, << "[ freeze ]" >>} :
                   genpr' = [r EXCEPT !.pc = "crashed",
                                      !.out = [file |-> "-of",
                                               header |-> flushed,
                                               body |-> <<>>]]
           ELSE genpr' = [r EXCEPT !.pc = "done",
                                   !.out = [file |-> "-of",
                                            header |-> << "[ freeze ]" >>,
                                            body |-> FreezeLines(
                                                atoms.bfac,
                                                genpr.args.freeze_level, 0)]]
    /\ UNCHANGED collectionVars

\* The matrix branch (lines 161-197).
GenprMatrix ==
    /\ genpr.pc = "write"
    /\ ~genpr.bFreeze
    /\ (genpr.bDisre \/ genpr.args.constr) /\ genpr.x
    /\ \E g \in IndexGroups(genpr.atoms) :
          genpr' = [genpr EXCEPT
                       !.pc = "done", !.mode = "matrix", !.ind_grp = g,
                       !.out = [file |-> "-o",
                                header |-> IF genpr.args.constr
                                           THEN << "constraints", genpr.title >>
                                           ELSE << "distance_restraints",
                                                   genpr.title >>,
                                body |-> MatrixLines(g, genpr.args.constr,
                                                     0, 1, 0)]]
    /\ UNCHANGED collectionVars

\* The position restraint branch (lines 198-210).
GenprPosre ==
    /\ genpr.pc = "write"
    /\ ~genpr.bFreeze
    /\ ~((genpr.bDisre \/ genpr.args.constr) /\ genpr.x)
    /\ \E g \in IndexGroups(genpr.atoms) : \E t \in Titles(genpr.args.xfn) :
          genpr' = [genpr EXCEPT
                       !.pc = "done", !.mode = "posre", !.ind_grp = g,
                       !.out = [file |-> "-o",
                                header |-> << "position_restraints", t >>,
                                body |-> PosreLines(g)]]
    /\ UNCHANGED collectionVars

(***************************************************************************)
(* Specifications.                                                         *)
(***************************************************************************)
\* The collection after construction (Impl::Impl, lines 79-89).  The texts
\* parsed under Spec are well formed, so the assertion of line 283 is never
\* evaluated and the build makes no difference; SpecParse has both builds.
Init ==
    /\ alive = TRUE
    /\ debugBuild = FALSE
    /\ sel = <<>>
    /\ root = <<>>
    /\ grps = NullGrps
    /\ bExternalGroupsSet = FALSE
    /\ top = NullTop
    /\ gall = 0
    /\ rpost = ""
    /\ spost = ""
    /\ compiled = [done |-> FALSE, n |-> 0, pos |-> <<>>]
    /\ pcc = [initEvaluation |-> FALSE, frames |-> 0, calcs |-> <<>>]
    /\ evaluator = [frames |-> 0, finals |-> 0]
    /\ rp = IdleFrame
    /\ call = Ended("new", "", "ok", <<>>, <<>>)
    /\ everBound = FALSE
    /\ debugLevel = 0
    /\ dumped = <<>>
    /\ mempool = FALSE
    /\ released = <<>>
    /\ prompt = NoPrompt
    /\ genpr = NoRun

\* Token sequences of at most n tokens over the tokens of S.
SeqsUpTo(S, n) == UNION {[1..k -> S] : k \in 0..n}

\* Texts with one selection each, as the callers of the facade give them.
SelectionTexts == {<<e, CMD_SEP>> : e \in ExprTokens}

\* All texts over an expression, the separator and an invalid token.
ParseTokens == {E_GROUP_A, CMD_SEP, INVALID}
AllTexts == SeqsUpTo(ParseTokens, MaxTokens)

\* The n lines of a text whose line i ends after position c[i] (the last
\* line at the end of the text).
LinesOf(text, n, c) ==
    [i \in 1..n |-> SubSeq(text, (IF i = 1 THEN 0 ELSE c[i - 1]) + 1,
                                 IF i = n THEN Len(text) ELSE c[i])]

\* Stdin sessions: no line at all, or a text split in at most MaxLines lines.
StdinSessions ==
    {<<>>} \cup
    UNION { UNION { { LinesOf(text, n, c) :
                        c \in {d \in [1..(n - 1) -> 0..Len(text)] :
                                 \A i \in 1..(n - 2) : d[i] <= d[i + 1]} } :
                    n \in 1..MaxLines } :
            text \in AllTexts }

TopologyArgs == {<<Top3, 0>>, <<NullTop, 2>>, <<NullTop, 0>>}

Next ==
    \/ \E str \in SelectionTexts : ParseFromString(str)
    \/ LoopIter
    \/ Finish
    \/ \E a \in TopologyArgs : SetTopology(a[1], a[2])
    \/ \E g \in GroupSets : SetIndexGroups(g)
    \/ \E t \in {"res_com", "bogus"} : SetReferencePosType(t)
    \/ \E t \in {"atom", "bogus"} : SetOutputPosType(t)
    \/ Compile
    \/ Evaluate
    \/ EvaluateFinal

Spec == Init /\ [][Next]_vars

\* The configuration of the topology and of the position types, with every
\* kind of argument, and the question whether a topology is needed.
ConfigTexts == {<<E_GROUP_A, CMD_SEP>>, <<E_RESNAME, CMD_SEP>>}
Top2 == [isNull |-> FALSE, nr |-> 2]
ConfigTopologyArgs ==
    {<<Top3, 0>>, <<Top3, 5>>, <<Top2, -1>>, <<NullTop, 2>>, <<NullTop, 0>>}

NextTopology ==
    \/ \E str \in ConfigTexts : ParseFromString(str)
    \/ LoopIter
    \/ Finish
    \/ \E a \in ConfigTopologyArgs : SetTopology(a[1], a[2])
    \/ \E t \in {"atom", "res_com", "bogus"} : SetReferencePosType(t)
    \/ \E t \in {"atom", "mol_com", "bogus"} : SetOutputPosType(t)
    \/ RequiresTopologyCall

SpecTopology == Init /\ [][NextTopology]_vars

\* Compile and evaluate at every debug level.  No index groups are given:
\* compile resolves against none, so a group reference fails it and a forest
\* of keyword selections compiles.
DebugLevels == {-1, 0, 1, 2, 3, 4}

NextDebug ==
    \/ \E str \in ConfigTexts : ParseFromString(str)
    \/ LoopIter
    \/ Finish
    \/ SetTopology(Top3, 0)
    \/ \E level \in DebugLevels : SetDebugLevel(level)
    \/ Compile
    \/ Evaluate

SpecDebug == Init /\ [][NextDebug]_vars

\* A new collection and a file of characters on stdin, read line by line.
Characters == {"a", Backslash, Newline}

InitPrompt ==
    /\ alive = TRUE
    /\ debugBuild = FALSE
    /\ sel = <<>>
    /\ root = <<>>
    /\ grps = NullGrps
    /\ bExternalGroupsSet = FALSE
    /\ top = NullTop
    /\ gall = 0
    /\ rpost = ""
    /\ spost = ""
    /\ compiled = [done |-> FALSE, n |-> 0, pos |-> <<>>]
    /\ pcc = [initEvaluation |-> FALSE, frames |-> 0, calcs |-> <<>>]
    /\ evaluator = [frames |-> 0, finals |-> 0]
    /\ rp = IdleFrame
    /\ call = Ended("new", "", "ok", <<>>, <<>>)
    /\ everBound = FALSE
    /\ debugLevel = 0
    /\ dumped = <<>>
    /\ mempool = FALSE
    /\ released = <<>>
    /\ \E infile \in SeqsUpTo(Characters, MaxChars), bInteractive \in BOOLEAN :
          prompt = FileToRead(infile, bInteractive)
    /\ genpr = NoRun

NextPrompt == CallPromptLine

SpecPrompt == InitPrompt /\ [][NextPrompt]_vars

\* A collection that is parsed into, compiled and destroyed.
NextTeardown ==
    \/ \E str \in ConfigTexts : ParseFromString(str)
    \/ LoopIter
    \/ Finish
    \/ SetTopology(Top3, 0)
    \/ Compile
    \/ Destroy

SpecTeardown == Init /\ [][NextTeardown]_vars

\* A collection that holds parsed selections, one of them with group
\* references at two depths, and is given index groups or compiled.
E_NESTED == "not (group bogus or group B) and group 0"

NestedGroupsTree ==
    Node("SEL_ROOT", NoU, E_NESTED, FALSE,
         << Node("SEL_BOOLEAN", NoU, "and", FALSE,
                 << Node("SEL_BOOLEAN", NoU, "not", FALSE,
                         << Node("SEL_BOOLEAN", NoU, "or", FALSE,
                                 << Leaf("SEL_GROUPREF", GrefByName("bogus"),
                                         FALSE),
                                    Leaf("SEL_GROUPREF", GrefByName("B"),
                                         FALSE) >>) >>),
                    Leaf("SEL_GROUPREF", GrefById(0), FALSE) >>) >>)

ParsedTrees == {TreeOf(e) : e \in ExprTokens} \cup {NestedGroupsTree}

InitResolve ==
    /\ alive = TRUE
    /\ debugBuild = FALSE
    /\ \E forest \in SeqsUpTo(ParsedTrees, MaxSel) :
          /\ root = forest
          /\ sel = [i \in 1..Len(forest) |-> i]
    /\ grps = NullGrps
    /\ bExternalGroupsSet = FALSE
    /\ top = NullTop
    /\ gall = 0
    /\ rpost = ""
    /\ spost = ""
    /\ compiled = [done |-> FALSE, n |-> 0, pos |-> <<>>]
    /\ pcc = [initEvaluation |-> FALSE, frames |-> 0, calcs |-> <<>>]
    /\ evaluator = [frames |-> 0, finals |-> 0]
    /\ rp = IdleFrame
    /\ call = Ended("new", "", "ok", <<>>, <<>>)
    /\ everBound = FALSE
    /\ debugLevel = 0
    /\ dumped = <<>>
    /\ mempool = FALSE
    /\ released = <<>>
    /\ prompt = NoPrompt
    /\ genpr = NoRun

NextResolve ==
    \/ \E g \in GroupSets : SetIndexGroups(g)
    \/ Compile

SpecResolve == InitResolve /\ [][NextResolve]_vars

\* The configuration of a new collection by its setters and by initOptions.
DebugLevelArgs == DebugLevels \cup {5}

NextOptions ==
    \/ \E level \in DebugLevelArgs : SetDebugLevel(level)
    \/ \E t \in {"res_com", "bogus"} : SetReferencePosType(t)
    \/ \E t \in {"mol_com", "bogus"} : SetOutputPosType(t)
    \/ InitOptions

SpecOptions == Init /\ [][NextOptions]_vars

\* The runs of gmx_genpr on every command line: each option given or not,
\* the values of the options that have one, each input file given or not.
CommandLines ==
    {a \in [of : BOOLEAN, freeze : BOOLEAN, freeze_level : {0, 1},
            disre : BOOLEAN, disre_dist_set : BOOLEAN, constr : BOOLEAN,
            disre_frac : {0, 1}, disre_dist : {-1, 0}, xfn : BOOLEAN,
            nfn : BOOLEAN] :
        /\ ~a.freeze => a.freeze_level = 0
        /\ ~a.disre_dist_set => a.disre_dist = 0}

InitGenpr ==
    /\ alive = TRUE
    /\ debugBuild = FALSE
    /\ sel = <<>>
    /\ root = <<>>
    /\ grps = NullGrps
    /\ bExternalGroupsSet = FALSE
    /\ top = NullTop
    /\ gall = 0
    /\ rpost = ""
    /\ spost = ""
    /\ compiled = [done |-> FALSE, n |-> 0, pos |-> <<>>]
    /\ pcc = [initEvaluation |-> FALSE, frames |-> 0, calcs |-> <<>>]
    /\ evaluator = [frames |-> 0, finals |-> 0]
    /\ rp = IdleFrame
    /\ call = Ended("new", "", "ok", <<>>, <<>>)
    /\ everBound = FALSE
    /\ debugLevel = 0
    /\ dumped = <<>>
    /\ mempool = FALSE
    /\ released = <<>>
    /\ prompt = NoPrompt
    /\ \E a \in CommandLines : genpr = RunOn(a)

NextGenpr ==
    \/ GenprArgs
    \/ GenprRead
    \/ GenprFreeze
    \/ GenprMatrix
    \/ GenprPosre

SpecGenpr == InitGenpr /\ [][NextGenpr]_vars

\* A collection that holds the selections of earlier parse calls.
InitParse ==
    /\ alive = TRUE
    /\ debugBuild \in BOOLEAN
    /\ \E n \in 0..(MaxSel - 1) :
          /\ sel = [i \in 1..n |-> i]
          /\ root = [i \in 1..n |-> TreeOf(E_GROUP_A)]
    /\ grps = NullGrps
    /\ bExternalGroupsSet = FALSE
    /\ top = NullTop
    /\ gall = 0
    /\ rpost = ""
    /\ spost = ""
    /\ compiled = [done |-> FALSE, n |-> 0, pos |-> <<>>]
    /\ pcc = [initEvaluation |-> FALSE, frames |-> 0, calcs |-> <<>>]
    /\ evaluator = [frames |-> 0, finals |-> 0]
    /\ rp = IdleFrame
    /\ call = Ended("new", "", "ok", <<>>, <<>>)
    /\ everBound = FALSE
    /\ debugLevel = 0
    /\ dumped = <<>>
    /\ mempool = FALSE
    /\ released = <<>>
    /\ prompt = NoPrompt
    /\ genpr = NoRun

\* One parse call, over every text of the bounds.
NextParse ==
    \/ rp.pc = "idle" /\ \E str \in AllTexts : ParseFromString(str)
    \/ rp.pc = "idle" /\ \E str \in AllTexts : ParseFromFile(str)
    \/ rp.pc = "idle" /\ \E nr \in {-1, 1, 2}, b \in BOOLEAN, ls \in StdinSessions :
           ParseFromStdin(nr, b, ls)
    \/ PromptLine
    \/ LoopIter
    \/ PushEof
    \/ Finish

SpecParse == InitParse /\ [][NextParse]_vars

(***************************************************************************)
(* Properties of the parse calls (SpecParse).                              *)
(***************************************************************************)
\* The parse call of the behaviour has run to its end.
ParseEnded == rp.pc \in {"returned", "thrown", "aborted"}

\* The parser finished with the success status, nothing is left in the error
\* collector, and the selections added match the count asked for, if any.
ParseClean ==
    /\ rp.status = 0
    /\ rp.errors = <<>>
    /\ rp.maxnr > 0 => Len(sel) - rp.oldCount = rp.maxnr

\* C1: a parse call returns normally only when the parser finished with the
\* success status, the error collector is empty and, where a count was asked
\* for, exactly that many selections were added; in every other case the
\* call throws InvalidInputError.
C1_ParseOutcome ==
    ParseEnded =>
        /\ call.result = "ok" => ParseClean
        /\ ~ParseClean => call.result = "InvalidInputError"

\* Nothing the call added has been taken back, and the selections that were
\* there before it are as they were.
AddedSelectionsKept ==
    /\ Len(sel) = rp.oldCount + rp.added
    /\ Len(root) = Len(sel)
    /\ \A i \in 1..rp.oldCount : root[i] = TreeOf(E_GROUP_A)

\* C2 as stated: a parse call that fails throws one InvalidInputError whose
\* text is the concatenation of all the error messages collected during the
\* call, and the selections added before the failure stay in the collection.
C2_AllMessagesThrown ==
    rp.pc = "thrown" =>
        /\ call.result = "InvalidInputError"
        /\ call.text = rp.logged
        /\ AddedSelectionsKept

\* C2, amended: the text thrown is the concatenation of the messages still in
\* the collector when the call ends, that is, of all the messages collected
\* during the call but those an interactive stdin session has printed and
\* cleared between two lines; only such a session prints and clears; and
\* however the call ends, the selections it added stay in the collection.
C2_UnclearedMessagesThrown ==
    /\ rp.pc = "thrown" =>
          /\ call.result = "InvalidInputError"
          /\ call.text = rp.errors
          /\ rp.printed \o call.text = rp.logged
    /\ ~(rp.bStdIn /\ rp.bInteractive) => rp.printed = <<>>
    /\ ParseEnded => AddedSelectionsKept

\* C2, its case: an interactive session that printed and cleared a message,
\* then added a selection, then failed with another message.
C2_ThrownAfterClear ==
    /\ rp.pc = "thrown"
    /\ rp.printed # <<>>
    /\ call.text # <<>>
    /\ rp.added > 0

\* The positions of the tokens read that the interactive loop pushes: the end
\* token is not pushed, nor is a separator that follows a separator.
PushedPositions(lexed) ==
    {i \in 1..Len(lexed) :
        /\ lexed[i] # YYEOF
        /\ ~(lexed[i] = CMD_SEP /\ i > 1 /\ lexed[i - 1] = CMD_SEP)}

\* The commands of a token sequence: an expression that starts a command and
\* is followed by a separator.
Commands(toks) ==
    {i \in 1..(Len(toks) - 1) :
        /\ toks[i] \in ExprTokens
        /\ i = 1 \/ toks[i - 1] = CMD_SEP
        /\ toks[i + 1] = CMD_SEP}

\* C10: within one run of the interactive token loop, a separator that
\* follows a separator is not pushed to the parser, every other token read is
\* pushed, in the order read; and each expression terminated by a separator
\* that was pushed has yielded exactly one parsed selection.
C10_EmptyCommandsSkipped ==
    /\ rp.loopInteractive =>
          LET kept == PushedPositions(rp.lexed)
          IN  /\ Len(rp.pushed) = Cardinality(kept)
              /\ \A i \in kept :
                    rp.pushed[Cardinality({j \in kept : j <= i})] = rp.lexed[i]
    /\ rp.added = Cardinality(Commands(rp.pushedAll))

\* C10, its case: a line with an empty command between two separators.
C10_SeparatorSkipped ==
    /\ rp.loopInteractive
    /\ \E i \in 1..(Len(rp.lexed) - 1) :
          rp.lexed[i] = CMD_SEP /\ rp.lexed[i + 1] = CMD_SEP
    /\ Len(rp.pushed) < Len(rp.lexed)
    /\ rp.added > 0

(***************************************************************************)
(* Properties of the facade calls (Spec).                                  *)
(***************************************************************************)
\* The last call went through the given step of its body.
Did(step) == \E i \in 1..Len(call.did) : call.did[i] = step

\* Number of nodes of the given type in a tree, and in a forest.
RECURSIVE CountType(_, _)
RECURSIVE CountTypeAll(_, _)
CountType(node, t) ==
    (IF node.type = t THEN 1 ELSE 0) + CountTypeAll(node.child, t)

CountTypeAll(nodes, t) ==
    IF nodes = <<>> THEN 0
    ELSE CountType(Head(nodes), t) + CountTypeAll(Tail(nodes), t)

\* The k-th group of g is the one the reference u stands for: the first of
\* that name, or the one at that position counted from 0.
Refers(u, g, k) ==
    IF u.byName
    THEN g.g[k].name = u.name /\ \A j \in 1..(k - 1) : g.g[j].name # u.name
    ELSE k = u.id + 1

\* No group reference left in the tree stands for a group of g.
RECURSIVE Unresolvable(_, _)
Unresolvable(node, g) ==
    /\ node.type = "SEL_GROUPREF" =>
          g.isNull \/ \A k \in 1..Len(g.g) : ~Refers(node.u, g, k)
    /\ \A i \in 1..Len(node.child) : Unresolvable(node.child[i], g)

C4_GroupsBoundOnce ==
    [][call'.op = "setIndexGroups" =>
          LET accepted == call'.result # "AssertionFailure"
          IN  /\ call'.arg.isNull => accepted
              /\ ~call'.arg.isNull => (accepted <=> ~everBound)
              /\ accepted => grps' = call'.arg /\ bExternalGroupsSet'
              /\ ~accepted => ~alive' /\ grps' = grps /\ root' = root]_vars

\* C4, its case: a second group set was handed in and the assertion failed.
C4_SecondBindingRejected ==
    /\ call.op = "setIndexGroups"
    /\ ~call.arg.isNull
    /\ call.result = "AssertionFailure"
    /\ grps = GroupsAB
    /\ ~alive

\* A node and what a step made of it: a group reference stays as it is or
\* becomes the constant group it stands for in g, with that group's indices
\* and name; every other node, a resolved one included, stays as it is.
RECURSIVE ResolvedOnce(_, _, _)
ResolvedOnce(old, new, g) ==
    /\ Len(new.child) = Len(old.child)
    /\ new.reqTop = old.reqTop
    /\ \/ new.type = old.type /\ new.u = old.u /\ new.name = old.name
       \/ /\ old.type = "SEL_GROUPREF"
          /\ new.type = "SEL_CONST"
          /\ ~g.isNull
          /\ \E k \in 1..Len(g.g) :
                /\ Refers(old.u, g, k)
                /\ new.u = CGrp(g.g[k].name, g.g[k].index)
                /\ new.name = g.g[k].name
    /\ \A i \in 1..Len(old.child) : ResolvedOnce(old.child[i], new.child[i], g)

\* C5: a group-reference node is resolved at most once: a step leaves it as
\* it is or turns it into a constant group with the indices and the name of
\* the group it refers to, and a constant group is never resolved again or
\* turned back; a resolution pass converts every reference that has a group,
\* and if a look-up failed the resolving call throws InvalidInputError.
C5_ResolvedAtMostOnce ==
    [][/\ Len(root') >= Len(root)
       /\ \A i \in 1..Len(root) : ResolvedOnce(root[i], root'[i], grps')
       /\ call'.op \in {"setIndexGroups", "compile"} /\ Did("resolve")' =>
             /\ \A i \in 1..Len(root') : Unresolvable(root'[i], grps')
             /\ CountTypeAll(root', "SEL_GROUPREF") > 0 =>
                   call'.result = "InvalidInputError"]_vars

\* C5, its case: a reference was resolved by a first call, and a second
\* call, with NULL, went over the forest again and failed on the others.
C5_ResolvedAndFailed ==
    /\ call.op = "setIndexGroups"
    /\ call.arg.isNull
    /\ call.result = "InvalidInputError"
    /\ CountTypeAll(root, "SEL_GROUPREF") > 0
    /\ \E i \in 1..Len(root) :
          /\ root[i].name = E_GROUP_A
          /\ root[i].child[1].type = "SEL_CONST"
          /\ root[i].child[1].u = CGrp("A", <<2, 7, 9>>)

\* Some reference of the tree names a group that g does not hold.
RECURSIVE UnknownName(_, _)
UnknownName(node, g) ==
    \/ /\ node.type = "SEL_GROUPREF"
       /\ node.u.byName
       /\ g.isNull \/ \A k \in 1..Len(g.g) : g.g[k].name # node.u.name
    \/ \E i \in 1..Len(node.child) : UnknownName(node.child[i], g)

\* C6 as stated: when a selection refers to a group name that is unknown,
\* compile fails with the unknown-group error and leaves the trees of the
\* other selections as they were.
C6_UnknownGroupFailsCompile ==
    [][call'.op = "compile" /\ (\E i \in 1..Len(root) : UnknownName(root[i], grps)) =>
          /\ call'.result = "InvalidInputError"
          /\ call'.text # <<>>
          /\ \A k \in 1..Len(call'.text) : call'.text[k] = UnknownGroupMsg
          /\ root' = root
          /\ compiled' = compiled]_vars

\* C6, amended: when a selection refers to a group name that is unknown, a
\* compile call that passes the topology check and finds that setIndexGroups
\* has not run fails with the unknown-group error before the compiler is
\* started, and leaves every tree as it was.  (If the topology is missing,
\* that error comes first; if setIndexGroups has run, compile resolves
\* nothing and hands the forest to the compiler.)
C6_UnknownGroupFailsFirstCompile ==
    [][(/\ call'.op = "compile"
        /\ \E i \in 1..Len(root) : UnknownName(root[i], grps)
        /\ ~everBound
        /\ ~(top.isNull /\ RequiresTopology(rpost, spost, root))) =>
          /\ call'.result = "InvalidInputError"
          /\ call'.text # <<>>
          /\ \A k \in 1..Len(call'.text) : call'.text[k] = UnknownGroupMsg
          /\ call'.did = <<"resolve">>
          /\ root' = root
          /\ compiled' = compiled]_vars

\* C6, its case: compile failed on the unknown name with a valid selection
\* beside it.
C6_CompileFailedBesideValid ==
    /\ call.op = "compile"
    /\ call.result = "InvalidInputError"
    /\ \E i, j \in 1..Len(root) :
          root[i] = TreeOf(E_BOGUS_OR_5) /\ root[j] = TreeOf(E_RESNAME)

\* C7 as stated: a setIndexGroups or compile call that fails with an error
\* other than a syntax error has stopped at the point of detection and left
\* the group set, the flag and every tree as they were before the call.
C7_FailFastNoMutation ==
    [][(/\ call'.op \in {"setIndexGroups", "compile"}
        /\ call'.result \in {"InvalidInputError", "InconsistentInputError"}) =>
          /\ grps' = grps
          /\ bExternalGroupsSet' = bExternalGroupsSet
          /\ root' = root]_vars

\* C7, amended: only the missing-topology failure of compile stops at the
\* point of detection with nothing changed.  A setIndexGroups or compile call
\* that fails with the unknown-group error has first stored the group set
\* (NULL for compile) and set the flag, then gone over every tree, converting
\* each reference that has a group, and throws at the end with one message
\* for each reference left unresolved; the compiler has not run.
C7_UnknownGroupNotFailFast ==
    [][/\ call'.op = "compile" /\ call'.result = "InconsistentInputError" =>
             UNCHANGED << grps, bExternalGroupsSet, root, compiled, pcc >>
       /\ (call'.op \in {"setIndexGroups", "compile"}
             /\ call'.result = "InvalidInputError") =>
             /\ bExternalGroupsSet'
             /\ grps' = IF call'.op = "compile" THEN NullGrps ELSE call'.arg
             /\ Len(call'.text) = CountTypeAll(root', "SEL_GROUPREF")
             /\ \A k \in 1..Len(call'.text) : call'.text[k] = UnknownGroupMsg
             /\ \A i \in 1..Len(root') : Unresolvable(root'[i], grps')
             /\ \A i \in 1..Len(root) : ResolvedOnce(root[i], root'[i], grps')
             /\ UNCHANGED << compiled, pcc >>]_vars

\* C7, its case: setIndexGroups failed with two messages after it had stored
\* the group set, set the flag and converted a reference of another tree.
C7_FailedAfterMutation ==
    /\ call.op = "setIndexGroups"
    /\ call.result = "InvalidInputError"
    /\ Len(call.text) = 2
    /\ grps = GroupsAB
    /\ bExternalGroupsSet
    /\ CountTypeAll(root, "SEL_CONST") > 0

\* C8: compile throws the missing-topology error, before anything else, if
\* no topology is attached and a default position type other than atom or
\* some tree needs one; otherwise it goes on past that check.
C8_TopologyCheck ==
    call.op = "compile" =>
        LET needed == \/ rpost \notin {"", "atom"}
                      \/ spost \notin {"", "atom"}
                      \/ \E i \in 1..Len(root) : RequiresTop(root[i])
        IN  IF top.isNull /\ needed
            THEN /\ call.result = "InconsistentInputError"
                 /\ call.text = <<MissingTopologyMsg>>
                 /\ call.did = <<>>
            ELSE /\ call.result # "InconsistentInputError"
                 /\ call.did # <<>>

\* C8, its case: compile threw because a tree needs the topology.
C8_MissingTopologyThrown ==
    /\ call.op = "compile"
    /\ call.result = "InconsistentInputError"
    /\ rpost = ""
    /\ top.isNull
    /\ \E i \in 1..Len(root) : RequiresTop(root[i])

EmptyTextParsed ==
    /\ call.op = "parseFromString"
    /\ call.arg \in {<<>>, <<CMD_SEP>>}
    /\ ParseEnded

\* C11 as stated: parseFromString on the empty string and on a string that
\* holds only a separator returns no selection and does not throw, and in
\* the separator-only case the separator is suppressed as an empty command
\* (it does not reach the parser).
C11_SeparatorSuppressed ==
    EmptyTextParsed =>
        /\ call.result = "ok"
        /\ rp.result = <<>>
        /\ rp.added = 0
        /\ \A i \in 1..Len(rp.pushedAll) : rp.pushedAll[i] # CMD_SEP

\* C11, amended: parseFromString on the empty string and on a string that
\* holds only a separator returns no selection and does not throw; nothing
\* is suppressed: the loop runs in its non-interactive mode and pushes every
\* token, the lone separator and the end token included, and it is the
\* parser that accepts the empty command.
C11_EmptyTextNoSelection ==
    EmptyTextParsed =>
        /\ call.result = "ok"
        /\ rp.result = <<>>
        /\ rp.added = 0
        /\ Len(sel) = rp.oldCount
        /\ rp.pushedAll = call.arg \o <<YYEOF>>

\* C11, its case: the lone separator was pushed and the call returned.
C11_LoneSeparatorPushed ==
    /\ EmptyTextParsed
    /\ call.arg = <<CMD_SEP>>
    /\ rp.pc = "returned"
    /\ rp.pushedAll = <<CMD_SEP, YYEOF>>

\* C17: in an interactive stdin session the errors collected while a line
\* was parsed have been printed and cleared when the next prompt is shown,
\* and the session reads on; errors reported that way do not make the call
\* fail: if the parser ends with the success status, nothing is left in the
\* collector and the count asked for is met, the call returns normally
\* whatever was printed before.
C17_InteractiveErrorsCleared ==
    rp.bStdIn /\ rp.bInteractive =>
        /\ rp.pc = "prompt" => rp.errors = <<>> /\ rp.status = YYPUSH_MORE
        /\ rp.printed \o rp.errors = rp.logged
        /\ ParseEnded /\ ParseClean =>
              call.result = "ok" /\ rp.result = ReturnedSelections(sel, rp.oldCount)

\* C17, its case: a session that printed the error of a line, read on, got a
\* selection from a later line and returned it.
C17_ReturnedAfterPrintedError ==
    /\ rp.bStdIn /\ rp.bInteractive
    /\ rp.pc = "returned"
    /\ rp.printed # <<>>
    /\ Len(rp.result) > 0

C14_CalculationsDeduplicated ==
    /\ \A i, j \in 1..Len(pcc.calcs) :
          i # j => ~SameCalculation(pcc.calcs[i], pcc.calcs[j])
    /\ IsCompiled =>
          /\ Len(compiled.pos) = Len(root)
          /\ \A i \in 1..Len(root) :
                SameCalculation(pcc.calcs[compiled.pos[i]],
                                PositionRequest(root[i], spost))
          /\ \A i, j \in 1..Len(root) :
                PositionRequest(root[i], spost) = PositionRequest(root[j], spost)
                    => compiled.pos[i] = compiled.pos[j]

\* C14, its case: two selections of the same group were compiled and there
\* is one calculation.
C14_OneCalculationForTwo ==
    /\ call.op = "compile"
    /\ call.result = "ok"
    /\ Len(root) = 2
    /\ root[1].child[1].type = "SEL_CONST"
    /\ root[1] = root[2]
    /\ Len(pcc.calcs) = 1

(***************************************************************************)
(* Properties of the configuration calls (SpecTopology).                   *)
(***************************************************************************)
\* A configured position type that is not the atom type.
NonAtomType(type) == type \in PosTypeNames \ {"atom"}

\* C15: requiresTopology() returns true exactly when the default reference
\* position type is a non-atom type, or the default output position type is
\* a non-atom type, or some top-level tree of the forest requires the
\* topology; the call changes nothing of the collection.
C15_RequiresTopologyAnswer ==
    [][call'.op = "requiresTopology"
       => /\ call'.result \in {"true", "false"}
          /\ call'.result = "true"
                <=> \/ NonAtomType(rpost)
                    \/ NonAtomType(spost)
                    \/ \E i \in 1..Len(root) : RequiresTop(root[i])
          /\ UNCHANGED << alive, sel, root, rp, facadeVars >>]_vars

\* requiresTopology() answered true for the output position type alone: the
\* reference type is the atom type or unset and no tree needs the topology.
C15_TrueForOutputTypeOnly ==
    /\ call.op = "requiresTopology"
    /\ call.result = "true"
    /\ ~NonAtomType(rpost)
    /\ NonAtomType(spost)
    /\ root # <<>>
    /\ \A i \in 1..Len(root) : ~RequiresTop(root[i])

\* C19: setTopology(top, natoms) attaches the topology and sets the all-atoms
\* universe to natoms atoms when natoms > 0 and to the atom count of the
\* topology otherwise, whatever topology and universe an earlier call left;
\* with natoms <= 0 and no topology the release assertion fails and nothing
\* of the collection changes.
C19_SetTopology ==
    [][call'.op = "setTopology"
       => LET t == call'.arg[1]
              natoms == call'.arg[2]
          IN  IF natoms <= 0 /\ t.isNull
              THEN /\ call'.result = "AssertionFailure"
                   /\ UNCHANGED << sel, root, facadeVars >>
              ELSE /\ call'.result = "ok"
                   /\ top' = t
                   /\ gall' = IF natoms > 0 THEN natoms ELSE t.nr
                   /\ alive']_vars

\* A call with a topology and without an atom count took the count of the
\* topology.
C19_UniverseFromTopology ==
    /\ call.op = "setTopology"
    /\ call.arg = << Top2, -1 >>
    /\ call.result = "ok"
    /\ top = Top2
    /\ gall = 2

(***************************************************************************)
(* Properties of the debug dumps (SpecDebug).                              *)
(***************************************************************************)
\* C20: at a debug level of 1 or more, a compile that reaches the compiler
\* dumps the forest before it, and a compile that succeeds dumps the forest
\* and the position calculations after it and the position calculations once
\* more after initEvaluation; at a level of 3 or more, an evaluate that
\* succeeds dumps the forest with values; below these levels, and in every
\* other call, nothing is dumped.
C20_DumpPoints ==
    [][LET forest == [what |-> "forest", bValues |-> FALSE]
           values == [what |-> "forest", bValues |-> TRUE]
           calcs == [what |-> "pcc", bValues |-> FALSE]
       IN  /\ call'.op = "compile" /\ call'.result = "ok"
              => dumped' = IF debugLevel >= 1
                           THEN << forest, forest, calcs, calcs >> ELSE <<>>
           /\ call'.op = "compile" /\ call'.result = "CompileError"
              => dumped' = IF debugLevel >= 1 THEN << forest >> ELSE <<>>
           /\ (/\ call'.op = "compile"
               /\ call'.result \in {"InconsistentInputError",
                                     "InvalidInputError"})
              => dumped' = <<>>
           /\ call'.op = "evaluate" /\ call'.result = "ok"
              => dumped' = IF debugLevel >= 3 THEN << values >> ELSE <<>>
           /\ call'.op \notin {"compile", "evaluate"} => dumped' = dumped
           /\ call'.op \in {"compile", "evaluate"} /\ debugLevel <= 0
              => dumped' = <<>>]_vars

\* At level 2, where compile dumps, an evaluate has dumped nothing.
C20_EvaluateSilentAtLevelTwo ==
    /\ call.op = "evaluate"
    /\ call.result = "ok"
    /\ debugLevel = 2
    /\ dumped = <<>>

(***************************************************************************)
(* Properties of promptLine (SpecPrompt).                                  *)
(***************************************************************************)
\* The text with every backslash-newline pair taken out, those that form once
\* an earlier pair is gone included: out is the text kept so far.
RECURSIVE WithoutMarkers(_, _)
WithoutMarkers(text, out) ==
    IF text = <<>> THEN out
    ELSE IF Head(text) = Newline /\ out # <<>> /\ out[Len(out)] = Backslash
    THEN WithoutMarkers(Tail(text), SubSeq(out, 1, Len(out) - 1))
    ELSE WithoutMarkers(Tail(text), Append(out, Head(text)))

\* What the last call of promptLine took from the file.
PromptRead ==
    SubSeq(prompt.before, 1, Len(prompt.before) - Len(prompt.infile))

\* C16: promptLine, interactive or not, returns false exactly at the end of
\* the file; otherwise it takes whole lines from the file and returns them
\* joined, with every backslash-newline pair and the final newline removed:
\* the line has no newline and no continuation marker in it, and a marker at
\* the very end of the file leaves the line before it.
C16_LineContinuation ==
    prompt.pc = "returned"
    => LET joined == WithoutMarkers(PromptRead, <<>>)
       IN  /\ prompt.before = PromptRead \o prompt.infile
           /\ prompt.result <=> prompt.before # <<>>
           /\ prompt.result
              => /\ PromptRead # <<>>
                 /\ prompt.infile = <<>> \/ EndsWith(PromptRead, << Newline >>)
                 /\ prompt.line = IF EndsWith(joined, << Newline >>)
                                  THEN SubSeq(joined, 1, Len(joined) - 1)
                                  ELSE joined
                 /\ \A i \in 1..Len(prompt.line) : prompt.line[i] # Newline

\* Two continuation markers in a row, the second at the very end of a piped
\* file: the lines were joined into one.
C16_JoinedAtEndOfFile ==
    /\ prompt.pc = "returned"
    /\ ~prompt.bInteractive
    /\ prompt.before = << "a", Backslash, Newline, Backslash, Newline >>
    /\ prompt.result
    /\ prompt.line = << "a" >>
    /\ prompt.infile = <<>>

(***************************************************************************)
(* Properties of the destructor (SpecTeardown).                            *)
(***************************************************************************)
\* The destructor has dealt with the member.
Released(member) == \E i \in 1..Len(released) : released[i] = member

\* The destructor dealt with member a before member b, or not yet with b.
ReleasedBefore(a, b) ==
    \A j \in 1..Len(released) :
        released[j] = b => \E i \in 1..(j - 1) : released[i] = a

\* C18: the destructor releases the symbol table first, the forest before
\* the selection data and the memory pool last; while a tree of the forest
\* is live, neither the selection data nor the pool has been destroyed.
C18_TeardownOrder ==
    /\ released # <<>> => released[1] = "symtab"
    /\ ReleasedBefore("symtab", "root")
    /\ ReleasedBefore("root", "sel")
    /\ ReleasedBefore("sel", "mempool")
    /\ Released("mempool") => Len(released) = 6 /\ released[6] = "mempool"
    /\ \A i, j \in 1..Len(released) : released[i] = released[j] => i = j
    /\ root # <<>> => ~Released("sel") /\ ~Released("mempool")

\* A collection with a compiled selection and a memory pool has been
\* destroyed to the end.
C18_CompiledCollectionDestroyed ==
    /\ Len(released) = 6
    /\ mempool
    /\ compiled.done
    /\ compiled.n > 0
    /\ root = <<>>
    /\ sel = <<>>

(***************************************************************************)
(* The assertion of runParser (SpecParse).                                 *)
(***************************************************************************)
\* C23: when a parse call ends, the status of the parse is a failure exactly
\* when the error collector is not empty, as the assertion of line 283 takes
\* for granted: no failure with an empty collector and no success with
\* messages pending.
C23_ConsistentErrorReporting ==
    ParseEnded => (~rp.bOk <=> rp.errors # <<>>)

(***************************************************************************)
(* Properties of the resolution pass (SpecResolve).                        *)
(***************************************************************************)
\* Number of group references of a tree, and of a forest, that stand for no
\* group of g.
RECURSIVE CountUnresolvable(_, _)
RECURSIVE CountUnresolvableAll(_, _)
CountUnresolvable(node, g) ==
    (IF /\ node.type = "SEL_GROUPREF"
        /\ (g.isNull \/ \A k \in 1..Len(g.g) : ~Refers(node.u, g, k))
     THEN 1 ELSE 0) + CountUnresolvableAll(node.child, g)

CountUnresolvableAll(nodes, g) ==
    IF nodes = <<>> THEN 0
    ELSE CountUnresolvable(Head(nodes), g) + CountUnresolvableAll(Tail(nodes), g)

C25_FlagMonotone ==
    [][/\ bExternalGroupsSet => bExternalGroupsSet'
       /\ everBound' => bExternalGroupsSet'
       /\ (call'.op = "compile" /\ bExternalGroupsSet)
          => ~Did("resolve")' /\ root' = root /\ grps' = grps
       /\ (call'.op = "setIndexGroups" /\ ~call'.arg.isNull
             /\ bExternalGroupsSet)
          => /\ call'.result = "AssertionFailure"
             /\ root' = root
             /\ grps' = grps]_vars

\* The references were resolved against no groups and failed, and the group
\* set handed in afterwards was rejected: they are still unresolved.
C25_GroupsSuppliedTooLate ==
    /\ call.op = "setIndexGroups"
    /\ call.arg = GroupsAB
    /\ call.result = "AssertionFailure"
    /\ grps = NullGrps
    /\ bExternalGroupsSet
    /\ CountTypeAll(root, "SEL_GROUPREF") > 0

(***************************************************************************)
(* The selections a parse call returns (SpecParse).                        *)
(***************************************************************************)
\* C26: a parse call that returns normally returns the selections appended
\* during the call, in the order they were appended: as many as the
\* collection has grown by, each at its place behind the selections of
\* earlier calls and none of those among them; the earlier selections and
\* their trees are where and what they were.
C26_ReturnsAddedSelections ==
    rp.pc = "returned"
    => /\ Len(rp.result) = Len(sel) - rp.oldCount
       /\ Len(rp.result) = rp.added
       /\ \A k \in 1..Len(rp.result) :
             /\ rp.result[k] = sel[rp.oldCount + k]
             /\ \A i \in 1..rp.oldCount : rp.result[k] # sel[i]
       /\ \A j, k \in 1..Len(rp.result) : j < k => rp.result[j] < rp.result[k]
       /\ \A i \in 1..rp.oldCount :
             sel[i] = i /\ root[i] = TreeOf(E_GROUP_A)

\* A call on a collection that held a selection returned the one it added.
C26_ReturnedTheNewSelection ==
    /\ rp.pc = "returned"
    /\ rp.oldCount = 1
    /\ Len(sel) = 2
    /\ rp.result = << 2 >>

(***************************************************************************)
(* The reading of stdin (SpecParse).                                       *)
(***************************************************************************)
\* The token is among those pushed to the parser so far.
Pushed(f, token) == \E i \in 1..Len(f.pushedAll) : f.pushedAll[i] = token

\* C27: a parseFromStdin call takes the lines one at a time and pushes a
\* token only while the parser wants more; once the parser has returned a
\* final status nothing more is pushed and no further line is read; the end
\* token is pushed only when the input has ended with the parser still
\* wanting more, once, and its status is the status of the parse.
C27_StopsAtFinalStatus ==
    [][(rp.entry = "parseFromStdin" /\ rp'.entry = "parseFromStdin")
       => /\ rp'.stdin # rp.stdin
             => /\ rp'.stdin = Tail(rp.stdin)
                /\ rp.status = YYPUSH_MORE
                /\ rp'.pushedAll = rp.pushedAll
          /\ rp'.pushedAll # rp.pushedAll
             => /\ rp.status = YYPUSH_MORE
                /\ Len(rp'.pushedAll) = Len(rp.pushedAll) + 1
                /\ SubSeq(rp'.pushedAll, 1, Len(rp.pushedAll)) = rp.pushedAll
                /\ rp'.stdin = rp.stdin
          /\ rp.status # YYPUSH_MORE
             => rp'.status = rp.status /\ rp'.stdin = rp.stdin
                /\ rp'.pushedAll = rp.pushedAll
          /\ (Pushed(rp', YYEOF) /\ ~Pushed(rp, YYEOF))
             => /\ rp.stdin = <<>>
                /\ rp.lexbuf = <<>>
                /\ rp'.status # YYPUSH_MORE
                /\ rp'.bOk = (rp'.status = 0)
          /\ rp'.pc = "finish"
             => rp'.status # YYPUSH_MORE /\ rp'.bOk = (rp'.status = 0)]_vars

\* The parser accepted on the first line, the count being reached, and the
\* call ended with the second line unread and no end token pushed.
C27_SecondLineUnread ==
    /\ rp.entry = "parseFromStdin"
    /\ rp.pc = "returned"
    /\ rp.status = 0
    /\ rp.stdin # <<>>
    /\ ~Pushed(rp, YYEOF)

(***************************************************************************)
(* The stored position types (SpecTopology).                               *)
(***************************************************************************)
\* C28: the stored reference and output position types are empty or the
\* name of a position type; a setter called with another name throws and
\* leaves the stored type as it was, one called with a name of a type
\* stores it; so the look-ups of requiresTopology find a type and the call
\* returns its answer.
C28_StoredTypesValid ==
    [][/\ rpost' \in PosTypeNames \cup {""}
       /\ spost' \in PosTypeNames \cup {""}
       /\ call'.op \in {"setReferencePosType", "setOutputPosType"}
          => IF call'.arg \in PosTypeNames
             THEN /\ call'.result = "ok"
                  /\ call'.op = "setReferencePosType"
                     => rpost' = call'.arg /\ spost' = spost
                  /\ call'.op = "setOutputPosType"
                     => spost' = call'.arg /\ rpost' = rpost
             ELSE /\ call'.result = "InvalidInputError"
                  /\ rpost' = rpost
                  /\ spost' = spost
       /\ call'.op = "requiresTopology"
          => /\ rpost # "" => TypeFromEnum(rpost) # "throws"
             /\ spost # "" => TypeFromEnum(spost) # "throws"
             /\ call'.result \in {"true", "false"}]_vars

\* A setter was called with a name of no type after a type had been stored,
\* and threw; the stored type is still there.
C28_InvalidNameRejected ==
    /\ call.op = "setOutputPosType"
    /\ call.arg = "bogus"
    /\ call.result = "InvalidInputError"
    /\ spost = "mol_com"

(***************************************************************************)
(* The assertion of initOptions (SpecOptions).                             *)
(***************************************************************************)
\* C29: whenever initOptions runs, the stored debug level is one of 0..4,
\* whatever the setDebugLevel calls before it were given, and the assertion
\* of line 391 holds.
C29_DebugLevelInRange ==
    [][call'.op = "initOptions"
       => /\ debugLevel \in 0..4
          /\ call'.result = "ok"]_vars

GenprEnded == genpr.pc \in {"done", "fatal", "crashed"}

\* C21: a freeze run on a structure with B-factors ends normally with the
\* '[ freeze ]' index in the -of file, listing in ascending order the numbers,
\* counted from 1, of the atoms whose B-factor is less than the freeze level;
\* the run stops with 'No B-factors in input file' only on a structure
\* without B-factor data.
C21_FreezeIndexWritten ==
    (GenprEnded /\ genpr.mode = "freeze" /\ ~genpr.atoms.isNull) =>
        LET atoms == genpr.atoms
            body == genpr.out.body
            below == {i \in 1..atoms.nr :
                         atoms.bfac[i] < genpr.args.freeze_level}
        IN  /\ atoms.hasPdbinfo =>
                  /\ genpr.pc = "done"
                  /\ genpr.out.file = "-of"
                  /\ genpr.out.header = << "[ freeze ]" >>
                  /\ {body[p] : p \in 1..Len(body)} = below
                  /\ \A p, q \in 1..Len(body) : p < q => body[p] < body[q]
            /\ genpr.fatal = NoBFactorsMsg => ~atoms.hasPdbinfo

\* C30: a run that reaches the output writes one kind of output, chosen in
\* this order: the freeze index if -of or -freeze is set; else the matrix if
\* -disre, -disre_dist or -constr is set and a structure file was read; else
\* the position restraints, one line for each atom of the group with its
\* number counted from 1 and the three force constants.  A matrix request
\* without a structure file gives position restraints, and the freeze branch
\* is entered only after a structure file was read.
C30_OneOutputByPriority ==
    (GenprEnded /\ genpr.mode # "") =>
        LET a == genpr.args
            g == genpr.ind_grp
            body == genpr.out.body
            matrix == a.disre \/ a.disre_dist_set \/ a.constr
        IN  /\ genpr.mode = "freeze" <=> (a.of \/ a.freeze)
            /\ genpr.mode = "matrix" <=>
                  (~(a.of \/ a.freeze) /\ matrix /\ a.xfn)
            /\ genpr.mode = "posre" <=>
                  (~(a.of \/ a.freeze) /\ ~(matrix /\ a.xfn))
            /\ genpr.mode = "posre" =>
                  /\ genpr.pc = "done"
                  /\ genpr.out.file = "-o"
                  /\ Len(body) = Len(g)
                  /\ \A i \in 1..Len(g) :
                        body[i] = [i |-> g[i] + 1, funct |-> 1,
                                   fcx |-> 1000, fcy |-> 1000, fcz |-> 1000]
            /\ genpr.mode = "freeze" => a.xfn

====
